---- MODULE Spec2Model ----
(***************************************************************************)
(* Model of the eBay sold-items scraper (ebay_sold_itempages.py):          *)
(* run_with_retries wraps run, one browser session per attempt, a page     *)
(* loop over listing pages and a candidate loop over detail pages.         *)
(* Texts (urls, conditions, error messages) are TLA+ strings, inspected    *)
(* with Len, SubSeq and \o as the Python code inspects them.               *)
(***************************************************************************)
EXTENDS Integers, Sequences, FiniteSets, TLC

VARIABLES
    pages,          \* run_with_retries/run parameter pages
    per_page,       \* parameter per_page
    max_retries,    \* parameter max_retries of run_with_retries
    smoke,          \* parameter smoke
    usd_rate,       \* parameter usd_rate, in hundredths (128 is 1.28)
    rwr_pc,         \* position of run_with_retries: "loop", "running", "returned", "raised"
    attempt,        \* loop variable attempt of run_with_retries
    last_error,     \* local last_error of run_with_retries
    rwr_result,     \* value returned by run_with_retries, or [raised |-> message]
    trace,          \* history: the run calls and sleeps of run_with_retries, in order
    outcomes,       \* history: per finished attempt "success", "failed" or "raised"
    pc,             \* position of run
    all_items,      \* local all_items of run
    seen_urls,      \* local seen_urls of run
    page_num,       \* loop variable page_num of run
    items,          \* items[:max_items_per_page] of the listing page being resolved
    idx,            \* 1-based position in items of the next candidate
    item,           \* the candidate whose detail page is open
    clean_url,      \* canonical url of that candidate
    pw,             \* async_playwright context: "none", "started", "stopped"
    browser,        \* browser: "none", "open" (launched), "closed" (close called)
    item_page,      \* detail page: "none", "open", "closed"
    exc,            \* message of the exception propagating out of run's inner scopes
    run_result,     \* value returned by the current run call (None until it returns)
    run_raised,     \* message of the exception run raised to its caller, or None
    loads,          \* history: page_num of every listing-page navigation of this run
    visits,         \* history: [page, url] of every detail visit started in this run
    call,           \* argument of the helper or endpoint called on its own
    ret,            \* [value |-> v] once that call has returned v
    environ,        \* os.environ: PLAYWRIGHT_HTTP_PROXY and PLAYWRIGHT_HTTPS_PROXY
    found,          \* history: environ before the first /scrape request
    reqs            \* the /scrape requests: proxy, position, old_http, old_https

vars == <<pages, per_page, max_retries, smoke, usd_rate, rwr_pc, attempt,
          last_error, rwr_result, trace, outcomes, pc, all_items, seen_urls,
          page_num, items, idx, item, clean_url, pw, browser, item_page, exc,
          run_result, run_raised, loads, visits, call, ret, environ, found,
          reqs>>

params == <<pages, per_page, max_retries, smoke, usd_rate>>
envVars == <<environ, found, reqs>>
callVars == <<call, ret, environ, found, reqs>>
rwrVars == <<rwr_pc, attempt, last_error, rwr_result, trace, outcomes>>

(***************************************************************************)
(* Bounds of the checked instances.                                        *)
(***************************************************************************)
MaxPages == 2
MaxPerPage == 6
MaxRetries == 3

\* max_retries: int = 2, the value every caller of run_with_retries uses
DefaultMaxRetries == 2

\* usd_rate: float = 1.28, in hundredths
DefaultUsdRate == 128

(***************************************************************************)
(* Python values.                                                          *)
(***************************************************************************)
None == "<None>"

\* str(v) as an f-string formats it
PyStr(v) == IF v = None THEN "None" ELSE v

\* truthiness of an Optional[str]
Truthy(s) == s # None /\ s # ""

Min(a, b) == IF a < b THEN a ELSE b

Digits == "0123456789"

RECURSIVE IntStr(_)
IntStr(n) ==
    IF n < 10 THEN SubSeq(Digits, n + 1, n + 1)
    ELSE IntStr(n \div 10) \o SubSeq(Digits, (n % 10) + 1, (n % 10) + 1)

\* s.startswith(p)
StartsWith(s, p) == Len(s) >= Len(p) /\ SubSeq(s, 1, Len(p)) = p

\* p in s
Contains(s, p) ==
    \E i \in 1..(Len(s) - Len(p) + 1) : SubSeq(s, i, i + Len(p) - 1) = p

UpperAZ == "ABCDEFGHIJKLMNOPQRSTUVWXYZ"
LowerAZ == "abcdefghijklmnopqrstuvwxyz"

LowerChar(c) ==
    IF \E i \in 1..26 : SubSeq(UpperAZ, i, i) = c
    THEN LET i == CHOOSE j \in 1..26 : SubSeq(UpperAZ, j, j) = c
         IN SubSeq(LowerAZ, i, i)
    ELSE c

\* s.lower()
RECURSIVE Lower(_)
Lower(s) ==
    IF s = "" THEN ""
    ELSE LowerChar(SubSeq(s, 1, 1)) \o Lower(SubSeq(s, 2, Len(s)))

\* dict.get(k) with a default
Get(r, k, d) == IF k \in DOMAIN r THEN r[k] ELSE d


Max(a, b) == IF a > b THEN a ELSE b

\* s[:k] of a list
PyPrefix(s, k) ==
    IF k >= 0 THEN SubSeq(s, 1, Min(k, Len(s)))
    ELSE SubSeq(s, 1, Max(0, Len(s) + k))

(***************************************************************************)
(* _parse_price_to_gbp (lines 34-81). Amounts are integers: pence for GBP, *)
(* cents for USD. A regular expression is matched as re.search matches it: *)
(* at the leftmost position where it can match, the number greedily.       *)
(***************************************************************************)
\* the pound sign (U+00A3) of the price texts and patterns: the texts are
\* kept in 7-bit characters, and the pound sign is written #
Pound == "#"

\* the character at position i, "" outside the text
At(s, i) == IF i \in 1..Len(s) THEN SubSeq(s, i, i) ELSE ""

\* the 7-bit characters matched by \s and removed by strip(), those for
\* which str.isspace() holds: space, \t, \n, \r, \f, the vertical tab
\* (0x0b) and the four separators 0x1c to 0x1f
Whitespace == {" ", "\t", "\n", "\r", "\f", "", "", "", "", ""}

IsDigit(c) == \E i \in 1..10 : SubSeq(Digits, i, i) = c

DigitVal(c) == (CHOOSE i \in 1..10 : SubSeq(Digits, i, i) = c) - 1

\* s.strip()
Strip(s) ==
    LET keep == { i \in 1..Len(s) : At(s, i) \notin Whitespace }
    IN IF keep = {} THEN ""
       ELSE SubSeq(s, CHOOSE i \in keep : \A j \in keep : i <= j,
                      CHOOSE i \in keep : \A j \in keep : i >= j)

\* \s* from position i: the first position at or after i that holds no
\* whitespace
SkipWs(s, i) ==
    CHOOSE j \in i..(Len(s) + 1) :
        /\ At(s, j) \notin Whitespace
        /\ \A k \in i..(j - 1) : At(s, k) \in Whitespace

\* a literal of a pattern at position i, under re.IGNORECASE
LitAt(s, i, lit) ==
    /\ i >= 1
    /\ i + Len(lit) - 1 <= Len(s)
    /\ Lower(SubSeq(s, i, i + Len(lit) - 1)) = Lower(lit)

\* [0-9][0-9,]*(?:\.[0-9]{2})? from a digit at position i: the last position
\* of the greedy match
NumEnd(s, i) ==
    LET run == CHOOSE j \in i..Len(s) :
                  /\ \A k \in (i + 1)..j : IsDigit(At(s, k)) \/ At(s, k) = ","
                  /\ ~(IsDigit(At(s, j + 1)) \/ At(s, j + 1) = ",")
    IN IF At(s, run + 1) = "." /\ IsDigit(At(s, run + 2)) /\ IsDigit(At(s, run + 3))
       THEN run + 3
       ELSE run

\* the literals lits, each followed by \s*, from position i: the position
\* after them, 0 when they do not match
RECURSIVE AfterLits(_, _, _)
AfterLits(s, i, lits) ==
    IF lits = <<>> THEN i
    ELSE IF LitAt(s, i, Head(lits))
    THEN AfterLits(s, SkipWs(s, i + Len(Head(lits))), Tail(lits))
    ELSE 0

\* the pattern "lits \s* (number)" matches at position i
PrefixMatchAt(s, i, lits) ==
    AfterLits(s, i, lits) # 0 /\ IsDigit(At(s, AfterLits(s, i, lits)))

\* re.search of "lits \s* (number)": group 1, or None
PrefixSearch(s, lits) ==
    IF \E i \in 1..Len(s) : PrefixMatchAt(s, i, lits)
    THEN LET i == CHOOSE k \in 1..Len(s) :
                      /\ PrefixMatchAt(s, k, lits)
                      /\ \A m \in 1..(k - 1) : ~PrefixMatchAt(s, m, lits)
             j == AfterLits(s, i, lits)
         IN SubSeq(s, j, NumEnd(s, j))
    ELSE None

\* the pattern "(number) \s* lit" matches at position i: a shorter number
\* than the greedy one is followed by a digit, a comma or a dot, never by
\* whitespace or the literal
SuffixMatchAt(s, i, lit) ==
    IsDigit(At(s, i)) /\ LitAt(s, SkipWs(s, NumEnd(s, i) + 1), lit)

\* re.search of "(number) \s* lit": group 1, or None
SuffixSearch(s, lit) ==
    IF \E i \in 1..Len(s) : SuffixMatchAt(s, i, lit)
    THEN LET i == CHOOSE k \in 1..Len(s) :
                      /\ SuffixMatchAt(s, k, lit)
                      /\ \A m \in 1..(k - 1) : ~SuffixMatchAt(s, m, lit)
         IN SubSeq(s, i, NumEnd(s, i))
    ELSE None

\* re.search of ^\s*(number)\s*$ in a stripped text: group 1, or None
PureNumber(s) ==
    IF IsDigit(At(s, 1)) /\ NumEnd(s, 1) = Len(s) THEN s ELSE None

\* the digits of a text as an integer, commas skipped
RECURSIVE DigitsValue(_, _)
DigitsValue(t, acc) ==
    IF t = "" THEN acc
    ELSE IF At(t, 1) = "," THEN DigitsValue(SubSeq(t, 2, Len(t)), acc)
    ELSE DigitsValue(SubSeq(t, 2, Len(t)), 10 * acc + DigitVal(At(t, 1)))

\* float(group.replace(",", "")), in hundredths
Hundredths(tok) ==
    IF Len(tok) >= 4 /\ At(tok, Len(tok) - 2) = "."
    THEN 100 * DigitsValue(SubSeq(tok, 1, Len(tok) - 3), 0)
             + DigitsValue(SubSeq(tok, Len(tok) - 1, Len(tok)), 0)
    ELSE 100 * DigitsValue(tok, 0)

(***************************************************************************)
(* The amounts are Python floats. An amount of h hundredths is the float   *)
(* nearest to h/100 (float("12.50"), the literal 0.78, the result of       *)
(* round(x, 2)); a product is rounded to a float, and round(x, 2) takes    *)
(* the hundredth nearest to that float. A float is kept exactly, as        *)
(* [m, k] for m / 2^k with m of 53 bits, m a natural number in limbs of    *)
(* 15 bits, the least significant first.                                   *)
(***************************************************************************)
LimbBase == 2 ^ 15

RECURSIVE BigOf(_)
BigOf(n) == IF n = 0 THEN <<>> ELSE <<n % LimbBase>> \o BigOf(n \div LimbBase)

RECURSIVE BigTrim(_)
BigTrim(x) ==
    IF x # <<>> /\ x[Len(x)] = 0 THEN BigTrim(SubSeq(x, 1, Len(x) - 1)) ELSE x

RECURSIVE BigAddCarry(_, _, _)
BigAddCarry(x, y, c) ==
    IF x = <<>> /\ y = <<>> THEN (IF c = 0 THEN <<>> ELSE <<c>>)
    ELSE LET t == (IF x = <<>> THEN 0 ELSE Head(x))
                  + (IF y = <<>> THEN 0 ELSE Head(y)) + c
         IN <<t % LimbBase>>
            \o BigAddCarry(IF x = <<>> THEN <<>> ELSE Tail(x),
                           IF y = <<>> THEN <<>> ELSE Tail(y), t \div LimbBase)

BigAdd(x, y) == BigTrim(BigAddCarry(x, y, 0))

\* x - y for x >= y
RECURSIVE BigSubBorrow(_, _, _)
BigSubBorrow(x, y, b) ==
    IF x = <<>> THEN <<>>
    ELSE LET t == Head(x) - (IF y = <<>> THEN 0 ELSE Head(y)) - b
         IN <<t % LimbBase>>
            \o BigSubBorrow(Tail(x), IF y = <<>> THEN <<>> ELSE Tail(y),
                            IF t < 0 THEN 1 ELSE 0)

BigSub(x, y) == BigTrim(BigSubBorrow(x, y, 0))

\* x * d + c for d and c below LimbBase
RECURSIVE BigMulSmall(_, _, _)
BigMulSmall(x, d, c) ==
    IF x = <<>> THEN (IF c = 0 THEN <<>> ELSE <<c>>)
    ELSE LET t == Head(x) * d + c
         IN <<t % LimbBase>> \o BigMulSmall(Tail(x), d, t \div LimbBase)

RECURSIVE BigMul(_, _)
BigMul(x, y) ==
    IF y = <<>> THEN <<>>
    ELSE BigAdd(BigMulSmall(x, Head(y), 0), <<0>> \o BigMul(x, Tail(y)))

\* -1, 0 or 1 as x is below, equal to or above y
BigCmp(x, y) ==
    IF Len(x) # Len(y) THEN (IF Len(x) < Len(y) THEN -1 ELSE 1)
    ELSE IF x = y THEN 0
    ELSE LET i == CHOOSE j \in 1..Len(x) :
                      x[j] # y[j] /\ \A l \in (j + 1)..Len(x) : x[l] = y[l]
         IN IF x[i] < y[i] THEN -1 ELSE 1

RECURSIVE Bits(_)
Bits(n) == IF n = 0 THEN 0 ELSE 1 + Bits(n \div 2)

BigBits(x) == IF x = <<>> THEN 0 ELSE 15 * (Len(x) - 1) + Bits(x[Len(x)])

BigShl(x, k) ==
    IF x = <<>> THEN <<>>
    ELSE [i \in 1..(k \div 15) |-> 0] \o BigMulSmall(x, 2 ^ (k % 15), 0)

\* quotient and remainder of x by d, d at most LimbBase
RECURSIVE BigDivRem(_, _)
BigDivRem(x, d) ==
    IF x = <<>> THEN [q |-> <<>>, r |-> 0]
    ELSE LET hi == BigDivRem(Tail(x), d)
             t == hi.r * LimbBase + Head(x)
         IN [q |-> BigTrim(<<t \div d>> \o hi.q), r |-> t % d]

BigShr(x, k) ==
    BigDivRem(SubSeq(x, Min(k \div 15, Len(x)) + 1, Len(x)), 2 ^ (k % 15)).q

BigOdd(x) == x # <<>> /\ x[1] % 2 = 1

\* x / y to the nearest natural, a tie to the even one, given the floor q
BigNearest(x, y, q) ==
    LET c == BigCmp(BigMulSmall(BigSub(x, BigMul(q, y)), 2, 0), y)
    IN IF c > 0 \/ (c = 0 /\ BigOdd(q)) THEN BigAdd(q, <<1>>) ELSE q

\* the float nearest to h/100, for h >= 1
FloatOf(h) ==
    LET k0 == 59 - Bits(h)
        k == IF BigBits(BigDivRem(BigShl(BigOf(h), k0), 100).q) < 53
             THEN k0 + 1 ELSE k0
        n == BigShl(BigOf(h), k)
    IN [m |-> BigNearest(n, BigOf(100), BigDivRem(n, 100).q), k |-> k]

\* x * y, rounded to a float
FloatMul(x, y) ==
    LET p == BigMul(x.m, y.m)
        s == BigBits(p) - 53
    IN [m |-> BigNearest(p, BigShl(<<1>>, s), BigShr(p, s)), k |-> x.k + y.k - s]

\* -1, 0 or 1 as the float x is below, equal to or above t/200
FloatCmp200(x, t) == BigCmp(BigMulSmall(x.m, 200, 0), BigShl(BigOf(t), x.k))

\* round(a * b, 2) in hundredths, for the floats a and b of a and b
\* hundredths: off a decimal tie the float product lies on the side of the
\* exact one; at a tie (the exact product ends in 5 thousandths) the float
\* product decides, and the even hundredth is taken when it is the tie itself
RoundMul(a, b) ==
    LET q == (a * b) \div 100
        r == (a * b) % 100
    IN IF r # 50 THEN (IF r > 50 THEN q + 1 ELSE q)
       ELSE LET c == FloatCmp200(FloatMul(FloatOf(a), FloatOf(b)), 2 * q + 1)
            IN IF c > 0 \/ (c = 0 /\ q % 2 = 1) THEN q + 1 ELSE q

\* the fixed rate of line 69, in hundredths
UsdToGbpRate == 78

\* round(usd * 0.78, 2), cents to pence
UsdToGbp(cents) == RoundMul(cents, UsdToGbpRate)

\* the first pattern of a list that matches gives the group
FirstGroup(groups) ==
    IF \E i \in 1..Len(groups) : groups[i] # None
    THEN groups[CHOOSE i \in 1..Len(groups) :
                    groups[i] # None /\ \A j \in 1..(i - 1) : groups[j] = None]
    ELSE None

\* lines 42-46
GbpGroup(cleaned) ==
    FirstGroup(<<PrefixSearch(cleaned, <<Pound>>),
                 PrefixSearch(cleaned, <<"GBP">>),
                 SuffixSearch(cleaned, "GBP")>>)

\* lines 56-62
UsdGroup(cleaned) ==
    FirstGroup(<<PrefixSearch(cleaned, <<"US", "$">>),
                 PrefixSearch(cleaned, <<"$">>),
                 PrefixSearch(cleaned, <<"USD">>),
                 SuffixSearch(cleaned, "USD"),
                 SuffixSearch(cleaned, "US$")>>)

\* Optional[float] None, among amounts that are never negative
NoPrice == -1

\* the USD patterns are tried first
ParseCleanedUsdFirst(cleaned) ==
    IF UsdGroup(cleaned) # None THEN UsdToGbp(Hundredths(UsdGroup(cleaned)))
    ELSE IF GbpGroup(cleaned) # None THEN Hundredths(GbpGroup(cleaned))
    ELSE IF PureNumber(cleaned) # None THEN Hundredths(PureNumber(cleaned))
    ELSE NoPrice

\* lines 41-81: GBP patterns, then USD patterns, then the pure number
ParseCleaned(cleaned) ==
    IF GbpGroup(cleaned) # None THEN Hundredths(GbpGroup(cleaned))
    ELSE IF UsdGroup(cleaned) # None THEN UsdToGbp(Hundredths(UsdGroup(cleaned)))
    ELSE IF PureNumber(cleaned) # None THEN Hundredths(PureNumber(cleaned))
    ELSE NoPrice

\* _parse_price_to_gbp: pence, or NoPrice
ParsePriceToGbp(price_text) ==
    IF price_text = None \/ price_text = "" THEN NoPrice
    ELSE ParseCleaned(Strip(price_text))

(***************************************************************************)
(* _extract_item_price_debug (lines 111-199): the price of an item page.   *)
(* A page gives, per locator, whether count() raises and the texts of the  *)
(* elements it matches, and for the scan whether content() raises and the  *)
(* tokens re.findall returns per pattern.                                  *)
(***************************************************************************)
\* text_content() of this element raises
Raises == "<raises>"

\* lines 135-139 and 167-170: the text of an element, parsed
ElemPrice(text) ==
    IF text = Raises \/ ~Truthy(text) THEN NoPrice
    ELSE ParsePriceToGbp(Strip(text))

\* the first amount of a sequence that is a price
FirstPrice(amounts) ==
    IF \E i \in 1..Len(amounts) : amounts[i] # NoPrice
    THEN amounts[CHOOSE i \in 1..Len(amounts) :
                     amounts[i] # NoPrice /\ \A j \in 1..(i - 1) : amounts[j] = NoPrice]
    ELSE NoPrice

\* every element the locator matches is read
ModernSelectorPriceAll(sel) ==
    IF sel.raises THEN NoPrice
    ELSE FirstPrice([i \in 1..Len(sel.elems) |-> ElemPrice(sel.elems[i])])

\* lines 128-148: one modern selector, its first min(count, 5) elements
ModernSelectorPrice(sel) ==
    IF sel.raises THEN NoPrice
    ELSE LET texts == PyPrefix(sel.elems, 5)
         IN FirstPrice([i \in 1..Len(texts) |-> ElemPrice(texts[i])])

\* lines 164-175: one legacy selector, locator.first
LegacySelectorPrice(sel) ==
    IF sel.raises \/ sel.elems = <<>> THEN NoPrice
    ELSE ElemPrice(sel.elems[1])

\* lines 179-199: the matches of the four patterns, pattern after pattern
HtmlPrice(html) ==
    IF html.raises THEN NoPrice
    ELSE LET tokens == html.matches[1] \o html.matches[2]
                           \o html.matches[3] \o html.matches[4]
         IN FirstPrice([i \in 1..Len(tokens) |-> ParsePriceToGbp(tokens[i])])

\* lines 115-199: the price, and the tiers entered in this order
ExtractItemPrice(page) ==
    LET m == FirstPrice([i \in 1..Len(page.modern) |->
                             ModernSelectorPrice(page.modern[i])])
        l == IF m # NoPrice THEN m
             ELSE FirstPrice([i \in 1..Len(page.legacy) |->
                                  LegacySelectorPrice(page.legacy[i])])
        h == IF l # NoPrice THEN l ELSE HtmlPrice(page.html)
    IN [price |-> h,
        tiers |-> <<"modern">>
                    \o (IF m = NoPrice THEN <<"legacy">> ELSE <<>>)
                    \o (IF l = NoPrice THEN <<"html">> ELSE <<>>)]

(***************************************************************************)
(* _extract_items_from_search_page (lines 370-464). A listing page gives   *)
(* the number of cards query_selector_all matches (or that call raises)    *)
(* and, for each of the two evaluate calls, the list it returns or that it *)
(* raises.                                                                 *)
(***************************************************************************)
\* lines 375-416: what Path A adds to items
PathA(page) ==
    IF page.cards.raises \/ page.cards.n = 0 \/ page.a.raises
    THEN <<>>
    ELSE page.a.out

\* lines 420-461: what Path B adds to items when it runs
PathB(page) == IF page.b.raises THEN <<>> ELSE page.b.out

\* Path B runs whatever Path A found
ExtractItemsUnion(page) ==
    [items |-> PathA(page) \o PathB(page), paths |-> <<"A", "B">>]

\* lines 372-464: the candidates, and the paths entered
ExtractItemsFromSearchPage(page) ==
    IF PathA(page) # <<>>
    THEN [items |-> PathA(page), paths |-> <<"A">>]
    ELSE [items |-> PathA(page) \o PathB(page), paths |-> <<"A", "B">>]

(***************************************************************************)
(* _safe_goto_page (lines 352-363). outs[a] tells whether page.goto and    *)
(* wait_for_load_state both return at try a (TRUE) or one of them raises.  *)
(***************************************************************************)
\* max_retries: int = 2 (line 352), the value every call in run uses
GotoMaxRetries == 2

\* lines 354-363 from try a on: the value returned, the tries made and the
\* one-second sleeps (line 361) between them
RECURSIVE GotoFrom(_, _, _)
GotoFrom(outs, a, m) ==
    IF a > m THEN [ok |-> FALSE, tries |-> a - 1, sleeps |-> Max(0, m - 1)]
    ELSE IF outs[a] THEN [ok |-> TRUE, tries |-> a, sleeps |-> a - 1]
    ELSE GotoFrom(outs, a + 1, m)

\* the tries go on for as long as outs has outcomes
SafeGotoPageUntilLoaded(outs) == GotoFrom(outs, 1, Len(outs))

SafeGotoPage(outs) == GotoFrom(outs, 1, GotoMaxRetries)

(***************************************************************************)
(* URL canonicalisation of run (lines 609-615).                            *)
(***************************************************************************)
BaseHost == "https://www.ebay.co.uk"

\* raw_url after the two prefix rules
AbsoluteUrl(raw) ==
    IF StartsWith(raw, "//") THEN "https:" \o raw
    ELSE IF ~StartsWith(raw, "http") THEN BaseHost \o raw
    ELSE raw

\* re.sub(r"\?.*$", "", u): '.' does not match a newline and '$' matches at
\* the end or before a final newline, so the leftmost '?' that is followed
\* by no newline other than a final one starts the text removed.
StripQuery(u) ==
    LET n == Len(u)
        Cut(i) == /\ SubSeq(u, i, i) = "?"
                  /\ \A j \in (i + 1)..n : SubSeq(u, j, j) = "\n" => j = n
    IN  IF \E i \in 1..n : Cut(i)
        THEN LET i == CHOOSE k \in 1..n : Cut(k) /\ \A m \in 1..(k - 1) : ~Cut(m)
             IN SubSeq(u, 1, i - 1)
                    \o (IF SubSeq(u, n, n) = "\n" THEN "\n" ELSE "")
        ELSE u

CleanUrl(raw) == StripQuery(AbsoluteUrl(raw))

(***************************************************************************)
(* What the browser can show: listing pages as lists of candidates (the    *)
(* dicts _extract_items_from_search_page returns), detail pages, and the   *)
(* messages of the exceptions a browser call can raise.                    *)
(***************************************************************************)
Cand(t, u, c, p) == [title |-> t, url |-> u, condition |-> c, price_text |-> p]

\* the cards the listing pages show
Card ==
    [c1  |-> Cand("card 1", "/itm/1", "Brand New", Pound \o "12.50"),
     c1q |-> Cand("card 1", "/itm/1?hash=a", "Brand New", Pound \o "12.50"),
     c1p |-> Cand("card 1", "//www.ebay.co.uk/itm/1", "", Pound \o "12.50"),
     c2  |-> Cand("card 2", "https://www.ebay.co.uk/itm/2?x=1", "Pre-owned",
                  "$10.00"),
     c3  |-> Cand("card 3", "/itm/3", "", ""),
     c4  |-> Cand("card 4", "/itm/4", "", Pound \o "8.00"),
     c5  |-> Cand("card 5", "/itm/5", "", "Sold"),
     c6  |-> Cand("card 6", "/itm/6", "", "US $20.25"),
     c7  |-> Cand("card 7", "/itm/7", "", ""),
     c8  |-> Cand("card 8", "/itm/8", "", Pound \o "1,234.56")]

Listings ==
    { <<>>,
      <<Card.c1, Card.c2, Card.c3, Card.c4, Card.c5, Card.c6, Card.c7, Card.c8>>,
      <<Card.c1q, Card.c1p, Card.c2, Card.c1>>,
      <<Card.c6, Card.c1>> }

\* the condition texts _extract_additional_info can return for the detail
\* page of a url: None when no locator yields a text
DetailConditions(url) ==
    IF url \in {BaseHost \o "/itm/1", BaseHost \o "/itm/2"}
    THEN {None, "New", "Used"}
    ELSE {"New", "Used"}

\* the price (pence) _extract_item_price_debug returns for the detail page
\* of a url: NoPrice when no tier yields a price
DetailPrice(url) ==
    IF url = BaseHost \o "/itm/4" THEN 995
    ELSE IF url = BaseHost \o "/itm/7" THEN 1500
    ELSE IF url = BaseHost \o "/itm/8" THEN 2599
    ELSE NoPrice

\* a detail page: navigation fails; or it loads and extraction raises; or
\* it loads and the extractors return this price and this condition
DetailOutcomes(url) ==
    { [nav |-> FALSE, raises |-> FALSE, condition |-> None, price |-> NoPrice],
      [nav |-> TRUE, raises |-> TRUE, condition |-> None, price |-> NoPrice] }
    \cup { [nav |-> TRUE, raises |-> FALSE, condition |-> c,
            price |-> DetailPrice(url)] : c \in DetailConditions(url) }

ExcMsgs == {"Target closed"}

NoResult == [pending |-> TRUE]

(***************************************************************************)
(* Result dictionaries (elapsed_sec and query are left out).               *)
(***************************************************************************)
\* success stays true for an empty run
RunResultOkAlwaysSuccess(its, pgs, pp) ==
    [success |-> TRUE, error |-> None,
     pages_requested |-> pgs, per_page_requested |-> pp,
     count |-> Len(its), items |-> its]

\* the error text is set whether or not items were collected
RunResultOkKeepsError(its, pgs, pp) ==
    [success |-> Len(its) > 0, error |-> "No items collected",
     pages_requested |-> pgs, per_page_requested |-> pp,
     count |-> Len(its), items |-> its]

\* lines 703-714
RunResultOk(its, pgs, pp) ==
    LET success == Len(its) > 0
    IN [success |-> success,
        error |-> IF success THEN None ELSE "No items collected",
        pages_requested |-> pgs, per_page_requested |-> pp,
        count |-> Len(its), items |-> its]

\* lines 692-701
RunResultFatal(e, its, pgs, pp) ==
    [success |-> FALSE, error |-> "Fatal error: " \o e,
     pages_requested |-> pgs, per_page_requested |-> pp,
     count |-> Len(its), items |-> its]

\* lines 555-562
SmokeResult(ok, pageTitle) ==
    IF ok THEN [success |-> TRUE, title |-> pageTitle]
    ELSE [success |-> FALSE, title |-> "navigation-failed",
          error |-> "Failed to load example.com"]

\* lines 514-523
ExhaustedResult(n, err, pgs, pp) ==
    [success |-> FALSE,
     error |-> "All " \o IntStr(n) \o " attempts failed. Last error: " \o PyStr(err),
     pages_requested |-> pgs, per_page_requested |-> pp,
     count |-> 0, items |-> <<>>]

\* wait = 2 ** (attempt - 1), line 510
RECURSIVE Pow2(_)
Pow2(n) == IF n <= 0 THEN 1 ELSE 2 * Pow2(n - 1)

\* the exponent is the attempt, not the attempt minus one
BackoffFromAttempt(a) == Pow2(a)

Backoff(a) == Pow2(a - 1)

(***************************************************************************)
(* Initial state: run_with_retries has been called with some arguments.    *)
(***************************************************************************)
\* the proxy variables are unset and no /scrape request is being served
NoRequests ==
    /\ environ = [http |-> None, https |-> None]
    /\ found = environ
    /\ reqs = <<>>

InitLocals ==
    /\ NoRequests
    /\ rwr_pc = "loop"
    /\ attempt = 1
    /\ last_error = None
    /\ rwr_result = NoResult
    /\ trace = <<>>
    /\ outcomes = <<>>
    /\ pc = "idle"
    /\ all_items = <<>>
    /\ seen_urls = {}
    /\ page_num = 0
    /\ items = <<>>
    /\ idx = 0
    /\ item = NoResult
    /\ clean_url = None
    /\ pw = "none"
    /\ browser = "none"
    /\ item_page = "none"
    /\ exc = None
    /\ run_result = NoResult
    /\ run_raised = None
    /\ loads = <<>>
    /\ visits = <<>>
    /\ call = NoResult
    /\ ret = NoResult

\* the scrape as main.py and api_server.py call it: max_retries is the default
Init ==
    /\ pages \in 1..MaxPages
    /\ per_page \in 1..MaxPerPage
    /\ max_retries = DefaultMaxRetries
    /\ smoke \in BOOLEAN
    /\ usd_rate = DefaultUsdRate
    /\ InitLocals

\* run_with_retries with any max_retries, around single-item runs
InitRetry ==
    /\ pages \in 1..MaxPages
    /\ per_page = 1
    /\ max_retries \in 1..MaxRetries
    /\ smoke \in BOOLEAN
    /\ usd_rate = DefaultUsdRate
    /\ InitLocals

(***************************************************************************)
(* run_with_retries: the retry loop.                                       *)
(***************************************************************************)
\* lines 484-495: the loop body starts and calls run, whose locals are fresh
\* the accumulator and the seen set live across the attempts
RwrCallRunKeepsItems ==
    /\ rwr_pc = "loop"
    /\ attempt <= max_retries
    /\ rwr_pc' = "running"
    /\ trace' = Append(trace, [op |-> "run", n |-> attempt])
    /\ pc' = "start"
    /\ page_num' = 0
    /\ items' = <<>>
    /\ idx' = 0
    /\ item' = NoResult
    /\ clean_url' = None
    /\ pw' = "none"
    /\ browser' = "none"
    /\ item_page' = "none"
    /\ exc' = None
    /\ run_result' = NoResult
    /\ run_raised' = None
    /\ loads' = <<>>
    /\ visits' = <<>>
    /\ UNCHANGED <<params, callVars, attempt, last_error, rwr_result, outcomes,
                   all_items, seen_urls>>

RwrCallRun ==
    /\ rwr_pc = "loop"
    /\ attempt <= max_retries
    /\ rwr_pc' = "running"
    /\ trace' = Append(trace, [op |-> "run", n |-> attempt])
    /\ pc' = "start"
    /\ all_items' = <<>>
    /\ seen_urls' = {}
    /\ page_num' = 0
    /\ items' = <<>>
    /\ idx' = 0
    /\ item' = NoResult
    /\ clean_url' = None
    /\ pw' = "none"
    /\ browser' = "none"
    /\ item_page' = "none"
    /\ exc' = None
    /\ run_result' = NoResult
    /\ run_raised' = None
    /\ loads' = <<>>
    /\ visits' = <<>>
    /\ UNCHANGED <<params, callVars, attempt, last_error, rwr_result, outcomes>>

\* the sleep is not guarded by the attempts that remain
SleepsAfterEvery(a, m) == TRUE

\* if attempt < max_retries, line 509
SleepsAfter(a, m) == a < m

\* lines 509-512 and the loop step: sleep when attempts remain, next attempt
RwrBackoff ==
    /\ trace' = IF SleepsAfter(attempt, max_retries)
                THEN Append(trace, [op |-> "sleep", n |-> Backoff(attempt)])
                ELSE trace
    /\ attempt' = attempt + 1
    /\ rwr_pc' = "loop"

runVars == <<pc, all_items, seen_urls, page_num, items, idx, item, clean_url,
             pw, browser, item_page, exc, run_result, run_raised, loads, visits>>

\* lines 497-499: the attempt returned a result whose success is true
RwrSuccess ==
    /\ rwr_pc = "running"
    /\ pc = "returned"
    /\ Get(run_result, "success", FALSE)
    /\ rwr_result' = run_result
    /\ rwr_pc' = "returned"
    /\ outcomes' = Append(outcomes, "success")
    /\ UNCHANGED <<params, callVars, attempt, last_error, trace, runVars>>

\* result.get("error") or "Unknown error", line 501
ErrorOf(result) ==
    LET e == Get(result, "error", None)
    IN IF Truthy(e) THEN e ELSE "Unknown error"

\* lines 501-502 and 509-512: the attempt returned success false
RwrLogicalFailure ==
    /\ rwr_pc = "running"
    /\ pc = "returned"
    /\ ~Get(run_result, "success", FALSE)
    /\ last_error' = ErrorOf(run_result)
    /\ outcomes' = Append(outcomes, "failed")
    /\ RwrBackoff
    /\ UNCHANGED <<params, callVars, rwr_result, runVars>>

\* lines 504-512: the attempt raised
RwrException ==
    /\ rwr_pc = "running"
    /\ pc = "raised"
    /\ last_error' = run_raised
    /\ outcomes' = Append(outcomes, "raised")
    /\ RwrBackoff
    /\ UNCHANGED <<params, callVars, rwr_result, runVars>>

\* the frame of the last run call is gone: its locals are as before a call
RunFrameGone ==
    /\ pc' = "idle"
    /\ all_items' = <<>>
    /\ seen_urls' = {}
    /\ page_num' = 0
    /\ items' = <<>>
    /\ idx' = 0
    /\ item' = NoResult
    /\ clean_url' = None
    /\ pw' = "none"
    /\ browser' = "none"
    /\ item_page' = "none"
    /\ exc' = None
    /\ run_result' = NoResult
    /\ run_raised' = None
    /\ loads' = <<>>
    /\ visits' = <<>>

\* line 485: the print that announces the attempt raises (stdout is closed,
\* or its encoding lacks the emoji); it stands outside the try, and
\* run_with_retries raises to its caller
RwrAnnounceRaises ==
    /\ rwr_pc = "loop"
    /\ attempt <= max_retries
    /\ \E e \in ExcMsgs : rwr_result' = [raised |-> e]
    /\ rwr_pc' = "raised"
    /\ RunFrameGone
    /\ UNCHANGED <<params, callVars, attempt, last_error, trace, outcomes>>

\* lines 498 and 502: run has returned and the print that reports its
\* result raises inside the try; the except of line 504 takes it as the
\* exception of the attempt, whatever run returned
RwrTryReportRaises ==
    /\ rwr_pc = "running"
    /\ pc = "returned"
    /\ \E e \in ExcMsgs : last_error' = e
    /\ outcomes' = Append(outcomes, "raised")
    /\ RwrBackoff
    /\ RunFrameGone
    /\ UNCHANGED <<params, callVars, rwr_result>>

\* lines 506, 507 and 511: a print of the except block or the one before
\* the sleep raises; no try encloses them, and run_with_retries raises to
\* its caller without sleeping or retrying
RwrReportRaises ==
    /\ rwr_pc = "running"
    /\ pc \in {"raised", "returned"}
    /\ \E e \in ExcMsgs : rwr_result' = [raised |-> e]
    /\ rwr_pc' = "raised"
    /\ RunFrameGone
    /\ UNCHANGED <<params, callVars, attempt, last_error, trace, outcomes>>

\* lines 514-523: the loop is exhausted
RwrExhausted ==
    /\ rwr_pc = "loop"
    /\ attempt > max_retries
    /\ rwr_result' = ExhaustedResult(max_retries, last_error, pages, per_page)
    /\ rwr_pc' = "returned"
    /\ UNCHANGED <<params, callVars, attempt, last_error, trace, outcomes, runVars>>

(***************************************************************************)
(* run: browser session.                                                   *)
(***************************************************************************)
\* the exception leaves run: there is no handler at line 689
RaiseToCaller(e) ==
    /\ exc' = e
    /\ pw' = IF pw = "started" THEN "stopped" ELSE pw
    /\ pc' = "raised"

\* an exception leaves the "async with" block (playwright stops, if it had
\* started) and reaches the handler of line 689
RaiseToHandler(e) ==
    /\ exc' = e
    /\ pw' = IF pw = "started" THEN "stopped" ELSE pw
    /\ pc' = "handler"

\* lines 549-550: async_playwright() itself fails to start
PlaywrightStartFails ==
    /\ pc = "start"
    /\ \E e \in ExcMsgs :
          /\ exc' = e
          /\ pc' = "handler"
    /\ UNCHANGED <<params, callVars, rwrVars, all_items, seen_urls, page_num, items, idx,
                   item, clean_url, pw, browser, item_page, run_result,
                   run_raised, loads, visits>>

\* lines 304-319: chromium.launch raises, no browser exists
LaunchFails ==
    /\ pc = "start"
    /\ \E e \in ExcMsgs :
          /\ exc' = e
          /\ pw' = "stopped"
          /\ pc' = "handler"
    /\ UNCHANGED <<params, callVars, rwrVars, all_items, seen_urls, page_num, items, idx,
                   item, clean_url, browser, item_page, run_result,
                   run_raised, loads, visits>>

\* lines 328-349: the browser is launched, then new_context or route raises
NewContextFails ==
    /\ pc = "start"
    /\ browser' = "open"
    /\ \E e \in ExcMsgs :
          /\ exc' = e
          /\ pw' = "stopped"
          /\ pc' = "handler"
    /\ UNCHANGED <<params, callVars, rwrVars, all_items, seen_urls, page_num, items, idx,
                   item, clean_url, item_page, run_result,
                   run_raised, loads, visits>>

\* lines 549-550: browser and context are ready
BrowserReady ==
    /\ pc = "start"
    /\ pw' = "started"
    /\ browser' = "open"
    /\ pc' = "branch"
    /\ UNCHANGED <<params, callVars, rwrVars, all_items, seen_urls, page_num, items, idx,
                   item, clean_url, item_page, exc, run_result,
                   run_raised, loads, visits>>

\* lines 552-555: the smoke branch fails in new_page or in page.title(),
\* before browser.close is reached
SmokeRaises ==
    /\ pc = "branch"
    /\ smoke
    /\ \E e \in ExcMsgs : RaiseToHandler(e)
    /\ UNCHANGED <<params, callVars, rwrVars, all_items, seen_urls, page_num, items, idx,
                   item, clean_url, browser, item_page, run_result,
                   run_raised, loads, visits>>

\* lines 552-556: the smoke navigation is done and browser.close raises
SmokeCloseRaises ==
    /\ pc = "branch"
    /\ smoke
    /\ browser' = "closed"
    /\ \E e \in ExcMsgs : RaiseToHandler(e)
    /\ UNCHANGED <<params, callVars, rwrVars, all_items, seen_urls, page_num, items, idx,
                   item, clean_url, item_page, run_result,
                   run_raised, loads, visits>>

\* lines 552-562: the smoke branch returns
SmokeReturns ==
    /\ pc = "branch"
    /\ smoke
    /\ \E ok \in BOOLEAN :
          run_result' = SmokeResult(ok, "Example Domain")
    /\ browser' = "closed"
    /\ pw' = "stopped"
    /\ pc' = "returned"
    /\ UNCHANGED <<params, callVars, rwrVars, all_items, seen_urls, page_num, items, idx,
                   item, clean_url, item_page, exc,
                   run_raised, loads, visits>>

\* line 564: the search page is opened
OpenSearchPage ==
    /\ pc = "branch"
    /\ ~smoke
    /\ page_num' = 1
    /\ pc' = "page_loop"
    /\ UNCHANGED <<params, callVars, rwrVars, all_items, seen_urls, items, idx,
                   item, clean_url, pw, browser, item_page, exc, run_result,
                   run_raised, loads, visits>>

\* line 564: context.new_page raises, outside the try/finally of line 566
OpenSearchPageFails ==
    /\ pc = "branch"
    /\ ~smoke
    /\ \E e \in ExcMsgs : RaiseToHandler(e)
    /\ UNCHANGED <<params, callVars, rwrVars, all_items, seen_urls, page_num, items, idx,
                   item, clean_url, browser, item_page, run_result,
                   run_raised, loads, visits>>


(***************************************************************************)
(* run: the page loop (lines 567-601).                                     *)
(***************************************************************************)
\* only the items collected from the current listing page are counted
CollectedOnPage ==
    Cardinality({ i \in 1..Len(all_items) :
        \E j \in 1..Len(visits) :
            visits[j].page = page_num /\ visits[j].url = all_items[i].url })

\* len(all_items), as read at lines 568, 604 and 606
CollectedCount == Len(all_items)

\* the cap never stops a loop
CapNeverReached == FALSE

\* if len(all_items) >= per_page: break, lines 568 and 606
CapReached == CollectedCount >= per_page

\* the fixed ceiling of 5 is dropped
MaxItemsPerPageNoCeiling == per_page - CollectedCount

\* max_items_per_page = min(5, per_page - len(all_items)), line 604
MaxItemsPerPage == Min(5, per_page - CollectedCount)

\* lines 567-569: the page range is exhausted or the cap stops the loop;
\* control reaches the finally of line 686 with no exception
PageLoopEnds ==
    /\ pc = "page_loop"
    /\ (page_num > pages \/ CapReached)
    /\ pc' = "finally"
    /\ UNCHANGED <<params, callVars, rwrVars, all_items, seen_urls, page_num, items, idx,
                   item, clean_url, pw, browser, item_page, exc, run_result,
                   run_raised, loads, visits>>

\* a listing page that fails to load ends the page loop with an error
ListingNavAborts ==
    /\ pc = "page_loop"
    /\ page_num <= pages
    /\ ~CapReached
    /\ loads' = Append(loads, page_num)
    /\ exc' = "Failed to load search page"
    /\ pc' = "finally"
    /\ UNCHANGED <<params, callVars, rwrVars, all_items, seen_urls, page_num, items, idx,
                   item, clean_url, pw, browser, item_page, run_result,
                   run_raised, visits>>

\* lines 571-577: _safe_goto_page of the listing page returns False
ListingNavFails ==
    /\ pc = "page_loop"
    /\ page_num <= pages
    /\ ~CapReached
    /\ loads' = Append(loads, page_num)
    /\ page_num' = page_num + 1
    /\ UNCHANGED <<params, callVars, rwrVars, all_items, seen_urls, items, idx,
                   item, clean_url, pw, browser, item_page, exc, run_result,
                   run_raised, pc, visits>>

\* lines 571-572: the report that announces the search url cannot be
\* printed; the exception leaves the page loop before page.goto, so that no
\* listing page is requested
ListingAnnounceRaises ==
    /\ pc = "page_loop"
    /\ page_num <= pages
    /\ ~CapReached
    /\ \E e \in ExcMsgs : exc' = e
    /\ pc' = "finally"
    /\ UNCHANGED <<params, callVars, rwrVars, all_items, seen_urls, page_num, items, idx,
                   item, clean_url, pw, browser, item_page, run_result,
                   run_raised, loads, visits>>

\* lines 574-600: the listing page is requested and then wait_for_selector
\* raises an error other than PWTimeout, or a report printed after the
\* navigation (lines 576, 579, 588, 600) raises; no per-page scope catches it
ListingWaitRaises ==
    /\ pc = "page_loop"
    /\ page_num <= pages
    /\ ~CapReached
    /\ loads' = Append(loads, page_num)
    /\ \E e \in ExcMsgs : exc' = e
    /\ pc' = "finally"
    /\ UNCHANGED <<params, callVars, rwrVars, all_items, seen_urls, page_num, items, idx,
                   item, clean_url, pw, browser, item_page, run_result,
                   run_raised, visits>>

\* lines 598-601: the listing page loads and yields no candidate
ListingEmpty ==
    /\ pc = "page_loop"
    /\ page_num <= pages
    /\ ~CapReached
    /\ <<>> \in Listings
    /\ loads' = Append(loads, page_num)
    /\ page_num' = page_num + 1
    /\ UNCHANGED <<params, callVars, rwrVars, all_items, seen_urls, items, idx,
                   item, clean_url, pw, browser, item_page, exc, run_result,
                   run_raised, pc, visits>>

\* lines 598-605: the listing page loads and yields candidates, of which
\* the first max_items_per_page are to be resolved
ListingLoaded ==
    /\ pc = "page_loop"
    /\ page_num <= pages
    /\ ~CapReached
    /\ loads' = Append(loads, page_num)
    /\ \E listing \in Listings \ {<<>>} :
          items' = PyPrefix(listing, MaxItemsPerPage)
    /\ idx' = 1
    /\ pc' = "item_loop"
    /\ UNCHANGED <<params, callVars, rwrVars, all_items, seen_urls, page_num,
                   item, clean_url, pw, browser, item_page, exc, run_result,
                   run_raised, visits>>

(***************************************************************************)
(* run: the candidate loop (lines 605-684).                                *)
(***************************************************************************)
\* the membership test never succeeds
NeverSeen(u) == FALSE

\* if clean_url in seen_urls, line 616
AlreadySeen(u) == u \in seen_urls

\* the url is not added
RecordNothing(u) == seen_urls

\* seen_urls.add(clean_url), line 618
RecordSeen(u) == seen_urls \cup {u}

\* lines 605-607 and 684: the slice is exhausted or the cap breaks the loop,
\* and the report of the completed page is printed
ItemLoopEnds ==
    /\ pc = "item_loop"
    /\ (idx > Len(items) \/ CapReached)
    /\ page_num' = page_num + 1
    /\ pc' = "page_loop"
    /\ UNCHANGED <<params, callVars, rwrVars, all_items, seen_urls, items, idx,
                   item, clean_url, pw, browser, item_page, exc, run_result,
                   run_raised, loads, visits>>

\* lines 605-607 and 684: the candidate loop has ended and the report of the
\* completed page cannot be printed; the exception leaves the page loop
PageReportRaises ==
    /\ pc = "item_loop"
    /\ (idx > Len(items) \/ CapReached)
    /\ \E e \in ExcMsgs : exc' = e
    /\ pc' = "finally"
    /\ UNCHANGED <<params, callVars, rwrVars, all_items, seen_urls, page_num, items, idx,
                   item, clean_url, pw, browser, item_page, run_result,
                   run_raised, loads, visits>>

\* lines 609-617: the candidate's canonical url has been seen, continue
SkipSeen ==
    /\ pc = "item_loop"
    /\ idx <= Len(items)
    /\ ~CapReached
    /\ AlreadySeen(CleanUrl(items[idx].url))
    /\ idx' = idx + 1
    /\ UNCHANGED <<params, callVars, rwrVars, all_items, seen_urls, page_num, items,
                   item, clean_url, pw, browser, item_page, exc, run_result,
                   run_raised, pc, loads, visits>>

\* lines 609-622: a new canonical url is recorded and its detail page opened
OpenItemPage ==
    /\ pc = "item_loop"
    /\ idx <= Len(items)
    /\ ~CapReached
    /\ ~AlreadySeen(CleanUrl(items[idx].url))
    /\ seen_urls' = RecordSeen(CleanUrl(items[idx].url))
    /\ visits' = Append(visits, [page |-> page_num, url |-> CleanUrl(items[idx].url)])
    /\ item' = items[idx]
    /\ clean_url' = CleanUrl(items[idx].url)
    /\ item_page' = "open"
    /\ pc' = "item_visit"
    /\ UNCHANGED <<params, callVars, rwrVars, all_items, page_num, items, idx,
                   pw, browser, exc, run_result, run_raised, loads>>

\* lines 609-622: the url is recorded and context.new_page raises, outside
\* the try of line 623
OpenItemPageFails ==
    /\ pc = "item_loop"
    /\ idx <= Len(items)
    /\ ~CapReached
    /\ ~AlreadySeen(CleanUrl(items[idx].url))
    /\ seen_urls' = RecordSeen(CleanUrl(items[idx].url))
    /\ visits' = Append(visits, [page |-> page_num, url |-> CleanUrl(items[idx].url)])
    /\ \E e \in ExcMsgs : exc' = e
    /\ pc' = "finally"
    /\ UNCHANGED <<params, callVars, rwrVars, all_items, page_num, items, idx, item,
                   clean_url, pw, browser, item_page, run_result, run_raised,
                   loads>>

\* a hard check: a candidate is kept only when "new" was read
SkipsUnlessNew(condition) ==
    ~(Truthy(condition) /\ Contains(Lower(condition), "new"))

\* the soft NEW-only check of line 639
SkipsNonNew(condition) ==
    Truthy(condition) /\ ~Contains(Lower(condition), "new")

\* item.get("condition") or "", line 645
SearchCondition(cand) ==
    LET c == Get(cand, "condition", None)
    IN IF Truthy(c) THEN c ELSE ""

\* lines 654-655
FinalCondition(condition, cand) ==
    IF ~Truthy(condition) /\ Truthy(SearchCondition(cand))
    THEN SearchCondition(cand)
    ELSE condition

\* item.get("price_text") or "", line 643
SearchPriceText(cand) ==
    LET t == Get(cand, "price_text", None)
    IN IF Truthy(t) THEN t ELSE ""

\* _parse_price_to_gbp of the price texts the cards of Listings carry,
\* evaluated once
ParsedCardPrice ==
    [t \in UNION { { l[i].price_text : i \in 1..Len(l) } : l \in Listings } |->
        ParsePriceToGbp(t)]

\* lines 648-651: the search-card price when the detail page gave none
FinalPrice(price, cand) ==
    IF price = NoPrice /\ Truthy(SearchPriceText(cand))
    THEN LET parsed == ParsedCardPrice[SearchPriceText(cand)]
         IN IF parsed # NoPrice THEN parsed ELSE price
    ELSE price

\* the rate of the call is ignored
GbpToUsdDefaultRate(gbp, rate) ==
    IF gbp = NoPrice THEN NoPrice ELSE RoundMul(gbp, DefaultUsdRate)

\* _gbp_to_usd, lines 84-87: round(gbp * usd_rate, 2), pence to cents, the
\* rate in hundredths
GbpToUsd(gbp, rate) ==
    IF gbp = NoPrice THEN NoPrice ELSE RoundMul(gbp, rate)

\* asdict(SoldItem(...)), lines 663-673 (price_text, shipping_text,
\* sold_info and image left out)
SoldItem(cand, url, condition, price) ==
    [title |-> cand.title,
     price_gbp |-> FinalPrice(price, cand),
     price_usd |-> GbpToUsd(FinalPrice(price, cand), usd_rate),
     condition |-> FinalCondition(condition, cand),
     url |-> url]

\* the result of _safe_goto_page is not tested
CollectsUnloaded(d) == ~d.raises /\ ~SkipsNonNew(d.condition)

\* a detail page whose outcome lets the candidate be collected
Collects(d) == d.nav /\ ~d.raises /\ ~SkipsNonNew(d.condition)

\* all_items.append(...), line 675
Collect(its, sold) == Append(its, sold)

\* the visit without the finally of line 681: the page is closed only when
\* the end of the try body is reached, not on continue nor on an exception
VisitItemNoFinally(d) ==
    /\ pc = "item_visit"
    /\ all_items' = IF Collects(d)
                    THEN Collect(all_items, SoldItem(item, clean_url, d.condition, d.price))
                    ELSE all_items
    /\ item_page' = IF Collects(d) THEN "closed" ELSE item_page
    /\ idx' = idx + 1
    /\ pc' = "item_loop"
    /\ UNCHANGED <<params, callVars, rwrVars, seen_urls, page_num, items, item, clean_url,
                   pw, browser, exc, run_result, run_raised, loads, visits>>

\* lines 623-682: the visit of the open detail page with outcome d: a failed
\* navigation, an exception caught at line 678, a non-new skip or a collected
\* item; item_page.close() then returns
VisitItemWith(d) ==
    /\ pc = "item_visit"
    /\ all_items' = IF Collects(d)
                    THEN Collect(all_items, SoldItem(item, clean_url, d.condition, d.price))
                    ELSE all_items
    /\ item_page' = "closed"
    /\ idx' = idx + 1
    /\ pc' = "item_loop"
    /\ UNCHANGED <<params, callVars, rwrVars, seen_urls, page_num, items, item, clean_url,
                   pw, browser, exc, run_result, run_raised, loads, visits>>

\* the visit, with any outcome the detail page of clean_url can have
VisitItem == \E d \in DetailOutcomes(clean_url) : VisitItemWith(d)

\* lines 623-682: the same visit, and item_page.close() in the finally raises
VisitItemCloseRaises ==
    /\ pc = "item_visit"
    /\ \E d \in DetailOutcomes(clean_url) :
          all_items' = IF Collects(d)
                       THEN Collect(all_items, SoldItem(item, clean_url, d.condition, d.price))
                       ELSE all_items
    /\ item_page' = "closed"
    /\ \E e \in ExcMsgs : exc' = e
    /\ pc' = "finally"
    /\ UNCHANGED <<params, callVars, rwrVars, seen_urls, page_num, items, idx, item,
                   clean_url, pw, browser, run_result, run_raised, loads, visits>>

(***************************************************************************)
(* run: leaving the page loop and returning.                               *)
(***************************************************************************)
\* lines 686-687 and 703-714: browser.close() returns, no exception is
\* propagating, run returns its result
CloseAndReturn ==
    /\ pc = "finally"
    /\ exc = None
    /\ browser' = "closed"
    /\ pw' = "stopped"
    /\ run_result' = RunResultOk(all_items, pages, per_page)
    /\ pc' = "returned"
    /\ UNCHANGED <<params, callVars, rwrVars, all_items, seen_urls, page_num, items, idx,
                   item, clean_url, item_page, exc, run_raised, loads, visits>>

\* lines 686-687: browser.close() returns and the propagating exception
\* goes on to the handler of line 689
CloseAndPropagate ==
    /\ pc = "finally"
    /\ exc # None
    /\ browser' = "closed"
    /\ pw' = "stopped"
    /\ pc' = "handler"
    /\ UNCHANGED <<params, callVars, rwrVars, all_items, seen_urls, page_num, items, idx,
                   item, clean_url, item_page, exc, run_result, run_raised,
                   loads, visits>>

\* lines 686-687: browser.close() itself raises
CloseRaises ==
    /\ pc = "finally"
    /\ browser' = "closed"
    /\ pw' = "stopped"
    /\ \E e \in ExcMsgs : exc' = e
    /\ pc' = "handler"
    /\ UNCHANGED <<params, callVars, rwrVars, all_items, seen_urls, page_num, items, idx,
                   item, clean_url, item_page, run_result, run_raised,
                   loads, visits>>

\* lines 689-701: the outer handler returns the fatal result
FatalReturn ==
    /\ pc = "handler"
    /\ run_result' = RunResultFatal(exc, all_items, pages, per_page)
    /\ pc' = "returned"
    /\ UNCHANGED <<params, callVars, rwrVars, all_items, seen_urls, page_num, items, idx,
                   item, clean_url, pw, browser, item_page, exc, run_raised,
                   loads, visits>>

\* lines 689-691: the outer handler itself raises while reporting (print to
\* a broken or non-UTF-8 stdout), the only way run raises to its caller;
\* the prints of run_with_retries that follow may raise as well
\* (RwrReportRaises) or be written (RwrException)
HandlerRaises ==
    /\ pc = "handler"
    /\ \E e \in ExcMsgs : run_raised' = e
    /\ pc' = "raised"
    /\ UNCHANGED <<params, callVars, rwrVars, all_items, seen_urls, page_num, items, idx,
                   item, clean_url, pw, browser, item_page, exc, run_result,
                   loads, visits>>

Next ==
    \/ RwrAnnounceRaises
    \/ RwrTryReportRaises
    \/ RwrReportRaises
    \/ RwrCallRun
    \/ RwrSuccess
    \/ RwrLogicalFailure
    \/ RwrException
    \/ RwrExhausted
    \/ PlaywrightStartFails
    \/ LaunchFails
    \/ NewContextFails
    \/ BrowserReady
    \/ SmokeRaises
    \/ SmokeCloseRaises
    \/ SmokeReturns
    \/ OpenSearchPage
    \/ OpenSearchPageFails
    \/ PageLoopEnds
    \/ ListingNavFails
    \/ ListingAnnounceRaises
    \/ ListingWaitRaises
    \/ ListingEmpty
    \/ ListingLoaded
    \/ ItemLoopEnds
    \/ PageReportRaises
    \/ SkipSeen
    \/ OpenItemPage
    \/ OpenItemPageFails
    \/ VisitItem
    \/ VisitItemCloseRaises
    \/ CloseAndReturn
    \/ CloseAndPropagate
    \/ CloseRaises
    \/ FatalReturn
    \/ HandlerRaises

Spec == Init /\ [][Next]_vars

(***************************************************************************)
(* Scenario: every report of run_with_retries (the prints of lines 485 to  *)
(* 511) is written; run itself may still raise from its handler.           *)
(***************************************************************************)
NextReported ==
    \/ RwrCallRun
    \/ RwrSuccess
    \/ RwrLogicalFailure
    \/ RwrException
    \/ RwrExhausted
    \/ PlaywrightStartFails
    \/ LaunchFails
    \/ NewContextFails
    \/ BrowserReady
    \/ SmokeRaises
    \/ SmokeCloseRaises
    \/ SmokeReturns
    \/ OpenSearchPage
    \/ OpenSearchPageFails
    \/ PageLoopEnds
    \/ ListingNavFails
    \/ ListingAnnounceRaises
    \/ ListingWaitRaises
    \/ ListingEmpty
    \/ ListingLoaded
    \/ ItemLoopEnds
    \/ PageReportRaises
    \/ SkipSeen
    \/ OpenItemPage
    \/ OpenItemPageFails
    \/ VisitItem
    \/ VisitItemCloseRaises
    \/ CloseAndReturn
    \/ CloseAndPropagate
    \/ CloseRaises
    \/ FatalReturn
    \/ HandlerRaises

SpecRetry == InitRetry /\ [][NextReported]_vars

(***************************************************************************)
(* Scenario: every listing page of the scrape loads and yields no          *)
(* candidate, and no browser call raises.                                  *)
(***************************************************************************)
InitNoCandidates ==
    /\ pages \in 1..MaxPages
    /\ per_page \in 1..MaxPerPage
    /\ max_retries \in 1..MaxRetries
    /\ smoke = FALSE
    /\ usd_rate = DefaultUsdRate
    /\ InitLocals

NextNoCandidates ==
    \/ RwrCallRun
    \/ RwrLogicalFailure
    \/ RwrExhausted
    \/ BrowserReady
    \/ OpenSearchPage
    \/ ListingEmpty
    \/ PageLoopEnds
    \/ CloseAndReturn

SpecNoCandidates == InitNoCandidates /\ [][NextNoCandidates]_vars

(***************************************************************************)
(* Scenario: on the listing pages in DownPages every detail-page           *)
(* navigation fails (_safe_goto_page returns False), and no browser call   *)
(* raises outside the per-item try.                                        *)
(***************************************************************************)
DownPages == {1}

NavFailed ==
    [nav |-> FALSE, raises |-> FALSE, condition |-> None, price |-> NoPrice]

\* the detail pages are unreachable while a page of DownPages is resolved
DetailOutcomesNavDown(p, url) ==
    IF p \in DownPages THEN {NavFailed} ELSE DetailOutcomes(url)

VisitItemNavDown ==
    \E d \in DetailOutcomesNavDown(page_num, clean_url) : VisitItemWith(d)

InitNavDown ==
    /\ pages \in 1..MaxPages
    /\ per_page \in 1..MaxPerPage
    /\ max_retries = 1
    /\ smoke = FALSE
    /\ usd_rate = DefaultUsdRate
    /\ InitLocals

NextNavDown ==
    \/ RwrCallRun
    \/ RwrSuccess
    \/ RwrLogicalFailure
    \/ RwrExhausted
    \/ BrowserReady
    \/ OpenSearchPage
    \/ PageLoopEnds
    \/ ListingNavFails
    \/ ListingEmpty
    \/ ListingLoaded
    \/ ItemLoopEnds
    \/ SkipSeen
    \/ OpenItemPage
    \/ VisitItemNavDown
    \/ CloseAndReturn

SpecNavDown == InitNavDown /\ [][NextNavDown]_vars

(***************************************************************************)
(* Scenario: any browser call can fail, and the output stream the handlers *)
(* report to is writable, so that no handler fails itself.                 *)
(***************************************************************************)
NextFaults ==
    \/ RwrCallRun
    \/ RwrSuccess
    \/ RwrLogicalFailure
    \/ RwrExhausted
    \/ PlaywrightStartFails
    \/ LaunchFails
    \/ NewContextFails
    \/ BrowserReady
    \/ SmokeRaises
    \/ SmokeCloseRaises
    \/ SmokeReturns
    \/ OpenSearchPage
    \/ OpenSearchPageFails
    \/ PageLoopEnds
    \/ ListingNavFails
    \/ ListingWaitRaises
    \/ ListingEmpty
    \/ ListingLoaded
    \/ ItemLoopEnds
    \/ SkipSeen
    \/ OpenItemPage
    \/ OpenItemPageFails
    \/ VisitItem
    \/ VisitItemCloseRaises
    \/ CloseAndReturn
    \/ CloseAndPropagate
    \/ CloseRaises
    \/ FatalReturn

SpecFaults == InitRetry /\ [][NextFaults]_vars

(***************************************************************************)
(* Scrapes of one listing page under several exchange rates.               *)
(***************************************************************************)
\* usd_rate values, in hundredths
UsdRates == {100, DefaultUsdRate, 130}

InitRates ==
    /\ pages = 1
    /\ per_page \in 1..MaxPerPage
    /\ max_retries = DefaultMaxRetries
    /\ smoke \in BOOLEAN
    /\ usd_rate \in UsdRates
    /\ InitLocals

SpecRates == InitRates /\ [][Next]_vars

(***************************************************************************)
(* Scenario: what a detail page shows is fixed by its url, and no browser  *)
(* call raises outside the per-item try. Next to the outcome of the visit, *)
(* a page carries what its condition text is: "new" when it contains new   *)
(* in any case, "other" when it is another text, "unread" when              *)
(* _extract_additional_info finds no text (None, or "" after strip).       *)
(***************************************************************************)
DetailPage(n, r, c, what) ==
    [nav |-> n, raises |-> r, condition |-> c, price |-> NoPrice, read |-> what]

DetailOf(url) ==
    IF url = BaseHost \o "/itm/1" THEN DetailPage(TRUE, FALSE, None, "unread")
    ELSE IF url = BaseHost \o "/itm/2" THEN DetailPage(TRUE, FALSE, "Used", "other")
    ELSE IF url = BaseHost \o "/itm/3" THEN DetailPage(TRUE, FALSE, "", "unread")
    ELSE IF url = BaseHost \o "/itm/4" THEN DetailPage(TRUE, FALSE, "Brand NEW", "new")
    ELSE IF url = BaseHost \o "/itm/5" THEN DetailPage(FALSE, FALSE, None, "unread")
    ELSE DetailPage(TRUE, TRUE, None, "unread")

VisitItemKnown == VisitItemWith(DetailOf(clean_url))

NextKnownPages ==
    \/ RwrCallRun
    \/ RwrSuccess
    \/ RwrLogicalFailure
    \/ RwrExhausted
    \/ BrowserReady
    \/ OpenSearchPage
    \/ PageLoopEnds
    \/ ListingNavFails
    \/ ListingEmpty
    \/ ListingLoaded
    \/ ItemLoopEnds
    \/ SkipSeen
    \/ OpenItemPage
    \/ VisitItemKnown
    \/ CloseAndReturn

SpecKnownPages == InitNavDown /\ [][NextKnownPages]_vars

(***************************************************************************)
(* Helpers and endpoints called on their own: call holds the argument, ret *)
(* the returned value; no scrape is running.                               *)
(***************************************************************************)
NoScrape ==
    /\ pages = 1
    /\ per_page = 1
    /\ max_retries = DefaultMaxRetries
    /\ smoke = FALSE
    /\ usd_rate = DefaultUsdRate
    /\ rwr_pc = "loop"
    /\ attempt = 1
    /\ last_error = None
    /\ rwr_result = NoResult
    /\ trace = <<>>
    /\ outcomes = <<>>
    /\ pc = "idle"
    /\ all_items = <<>>
    /\ seen_urls = {}
    /\ page_num = 0
    /\ items = <<>>
    /\ idx = 0
    /\ item = NoResult
    /\ clean_url = None
    /\ pw = "none"
    /\ browser = "none"
    /\ item_page = "none"
    /\ exc = None
    /\ run_result = NoResult
    /\ run_raised = None
    /\ loads = <<>>
    /\ visits = <<>>

Returned(v) == [value |-> v]

(***************************************************************************)
(* GET /scrape of main.py and api_server.py, up to the call of             *)
(* run_with_retries.                                                       *)
(***************************************************************************)
MaxReqPages == 51

\* pages: int = Query(1, ge=1, le=50): FastAPI validates before the handler
PagesValid(p) == p >= 1 /\ p <= 50

\* per_page: int = Query(30, ge=1, le=200)
PerPageValid(pp) == pp >= 1 /\ pp <= 200

\* pages = max(1, min(pages, 50))
ClampPages(p) == Max(1, Min(p, 50))

\* per_page = max(1, min(per_page, 200))
ClampPerPage(pp) == Max(1, Min(pp, 200))

\* if os.environ.get("VERCEL"): per_page = min(per_page, 10)
VercelPerPage(req) == IF req.vercel THEN Min(req.per_page, 10) ELSE req.per_page

\* the response to a request: 422 from the parameter validation, the dummy
\* response, or the scrape run with the (clamped) pages and per_page
ScrapeEndpoint(req) ==
    IF ~(PagesValid(req.pages) /\ PerPageValid(req.per_page))
    THEN [status |-> 422, scraped |-> FALSE]
    ELSE IF req.dummy
    THEN [status |-> 200, scraped |-> FALSE,
          pages |-> req.pages, per_page |-> VercelPerPage(req)]
    ELSE [status |-> 200, scraped |-> TRUE,
          pages |-> ClampPages(req.pages),
          per_page |-> ClampPerPage(VercelPerPage(req))]

ScrapeRequests ==
    [pages : (-1)..MaxReqPages, per_page : {-1, 0, 1, 10, 30, 200, 201},
     vercel : BOOLEAN, dummy : BOOLEAN]

InitRequest ==
    /\ NoScrape
    /\ NoRequests
    /\ call \in ScrapeRequests
    /\ ret = NoResult

HandleScrapeRequest ==
    /\ ret = NoResult
    /\ ret' = Returned(ScrapeEndpoint(call))
    /\ UNCHANGED <<params, rwrVars, runVars, call, envVars>>

SpecRequest == InitRequest /\ [][HandleScrapeRequest]_vars

(***************************************************************************)
(* GET /smoke. In main.py (lines 53-69) run_scrape is run_with_retries,    *)
(* in api_server.py (lines 52-59) it is run, called once; both pass        *)
(* smoke=True, pages=1, per_page=1. ret holds the response.                *)
(***************************************************************************)
\* main.py line 66, api_server.py line 57: the response built from the
\* returned dictionary
SmokeEndpoint(data) == [ok |-> TRUE, title |-> Get(data, "title", "n/a")]

\* main.py line 69, and the content of api_server.py line 59
SmokeFailed(e) == [ok |-> FALSE, error |-> e]

\* GET /smoke of main.py is received
InitMainSmoke ==
    /\ pages = 1
    /\ per_page = 1
    /\ max_retries = DefaultMaxRetries
    /\ smoke = TRUE
    /\ usd_rate = DefaultUsdRate
    /\ InitLocals

\* GET /smoke of api_server.py is received and has called run: no
\* run_with_retries is involved (rwr_pc is "direct")
InitApiSmoke ==
    /\ pages = 1
    /\ per_page = 1
    /\ max_retries = DefaultMaxRetries
    /\ smoke = TRUE
    /\ usd_rate = DefaultUsdRate
    /\ NoRequests
    /\ rwr_pc = "direct"
    /\ attempt = 1
    /\ last_error = None
    /\ rwr_result = NoResult
    /\ trace = <<>>
    /\ outcomes = <<>>
    /\ pc = "start"
    /\ all_items = <<>>
    /\ seen_urls = {}
    /\ page_num = 0
    /\ items = <<>>
    /\ idx = 0
    /\ item = NoResult
    /\ clean_url = None
    /\ pw = "none"
    /\ browser = "none"
    /\ item_page = "none"
    /\ exc = None
    /\ run_result = NoResult
    /\ run_raised = None
    /\ loads = <<>>
    /\ visits = <<>>
    /\ call = NoResult
    /\ ret = NoResult

InitSmoke == InitMainSmoke \/ InitApiSmoke

\* main.py lines 56-66: run_scrape has returned and the handler responds
SmokeResponds ==
    /\ rwr_pc = "returned"
    /\ ret = NoResult
    /\ ret' = Returned(SmokeEndpoint(rwr_result))
    /\ UNCHANGED <<params, rwrVars, runVars, call, envVars>>

\* main.py lines 67-69: run_scrape has raised; the response keeps status 200
SmokeRespondsFailure ==
    /\ rwr_pc = "raised"
    /\ ret = NoResult
    /\ ret' = Returned(SmokeFailed(rwr_result.raised))
    /\ UNCHANGED <<params, rwrVars, runVars, call, envVars>>

\* api_server.py lines 56-57: run has returned and the handler responds
ApiSmokeResponds ==
    /\ rwr_pc = "direct"
    /\ pc = "returned"
    /\ ret = NoResult
    /\ ret' = Returned(SmokeEndpoint(run_result))
    /\ UNCHANGED <<params, rwrVars, runVars, call, envVars>>

\* api_server.py lines 58-59: run has raised; JSONResponse with status 500
ApiSmokeRespondsFailure ==
    /\ rwr_pc = "direct"
    /\ pc = "raised"
    /\ ret = NoResult
    /\ ret' = Returned([status_code |-> 500, content |-> SmokeFailed(run_raised)])
    /\ UNCHANGED <<params, rwrVars, runVars, call, envVars>>

NextSmoke ==
    \/ RwrAnnounceRaises
    \/ RwrTryReportRaises
    \/ RwrReportRaises
    \/ RwrCallRun
    \/ RwrSuccess
    \/ RwrLogicalFailure
    \/ RwrException
    \/ RwrExhausted
    \/ PlaywrightStartFails
    \/ LaunchFails
    \/ NewContextFails
    \/ BrowserReady
    \/ SmokeRaises
    \/ SmokeCloseRaises
    \/ SmokeReturns
    \/ FatalReturn
    \/ HandlerRaises
    \/ SmokeResponds
    \/ SmokeRespondsFailure
    \/ ApiSmokeResponds
    \/ ApiSmokeRespondsFailure

SpecSmoke == InitSmoke /\ [][NextSmoke]_vars

(***************************************************************************)
(* GET /scrape of main.py (lines 107-160) and api_server.py (lines         *)
(* 125-162): the proxy handling around the awaited scrape. The handlers    *)
(* are coroutines of one event loop: a request runs from its start to the  *)
(* await of run_scrape without interruption, other requests run while it   *)
(* waits, and its finally block runs without interruption. A variable that *)
(* is not set is None.                                                     *)
(***************************************************************************)
MaxRequests == 2

\* the proxy parameter of a request: absent, empty, or a proxy url
Proxies == {None, "", "http://a:1", "http://b:2"}

Request(p) == [proxy |-> p, at |-> "received", old_http |-> None, old_https |-> None]

InitProxy ==
    /\ NoScrape
    /\ call = NoResult
    /\ ret = NoResult
    /\ environ \in { [http |-> None, https |-> None],
                      [http |-> "http://corp:3128", https |-> None] }
    /\ found = environ
    /\ reqs \in [1..MaxRequests -> { Request(p) : p \in Proxies }]

\* main.py lines 108-116: old values read, the proxy set, run_scrape awaited
ScrapeBegins(i) ==
    /\ reqs[i].at = "received"
    /\ reqs' = [reqs EXCEPT ![i] = [proxy |-> reqs[i].proxy, at |-> "scraping",
                                    old_http |-> environ.http,
                                    old_https |-> environ.https]]
    /\ environ' = IF Truthy(reqs[i].proxy)
                  THEN [http |-> reqs[i].proxy, https |-> reqs[i].proxy]
                  ELSE environ
    /\ UNCHANGED <<params, rwrVars, runVars, call, ret, found>>

\* main.py lines 126-160: run_scrape returns or raises, the response is
\* built, and the finally block restores or deletes both variables
ScrapeEnds(i) ==
    /\ reqs[i].at = "scraping"
    /\ environ' = [http |-> reqs[i].old_http, https |-> reqs[i].old_https]
    /\ reqs' = [reqs EXCEPT ![i].at = "responded"]
    /\ UNCHANGED <<params, rwrVars, runVars, call, ret, found>>

NextProxy == \E i \in 1..MaxRequests : ScrapeBegins(i) \/ ScrapeEnds(i)

SpecProxy == InitProxy /\ [][NextProxy]_vars

(***************************************************************************)
(* The canonicalisation of lines 609-615 applied to the hrefs a listing    *)
(* page can carry: getAttribute('href') values that contain "/itm/".       *)
(***************************************************************************)
MaxUrlId == 2

RawUrls ==
    { pre \o "/itm/" \o IntStr(n) \o suf :
        pre \in {"", "//www.ebay.co.uk", "https://www.ebay.co.uk",
                 "http://www.ebay.co.uk", "httpx"},
        n \in 1..MaxUrlId,
        suf \in {"", "?hash=a", "?a=1?b=2", "#top", "?a\n", "?a\nb", "?x\n?y"} }

InitCanon ==
    /\ NoScrape
    /\ NoRequests
    /\ call \in RawUrls
    /\ ret = NoResult

Canonicalize ==
    /\ ret = NoResult
    /\ ret' = Returned(CleanUrl(call))
    /\ UNCHANGED <<params, rwrVars, runVars, call, envVars>>

SpecCanon == InitCanon /\ [][Canonicalize]_vars

(***************************************************************************)
(* _parse_price_to_gbp applied to price texts: a number written between a  *)
(* leading and a trailing text.                                            *)
(***************************************************************************)
\* a written number: its text, the amount (in hundredths) a pattern
\* captures that reaches the number from its left (head) or from its right
\* (tail), and the amount of the text as a whole
Num(t, h, tl, w) == [text |-> t, head |-> h, tail |-> tl, whole |-> w]

PriceNumbers ==
    { Num("12.50", 1250, 1250, 1250),
      Num("10.00", 1000, 1000, 1000),
      Num("1,234.56", 123456, 123456, 123456),
      Num("7", 700, 700, 700),
      Num("4.25", 425, 425, 425),
      Num("12.5", 1200, 500, NoPrice),
      Num("", NoPrice, NoPrice, NoPrice) }

\* the texts before and after the number, by the currency they mark
Before ==
    [gbp |-> {Pound, Pound \o " ", Pound \o "", "GBP ", "gbp"},
     usd |-> {"$", "US $", "us$", "USD "},
     plain |-> {"", "  "},
     other |-> {"Price: "}]

After ==
    [gbp |-> {" GBP", "gbp"},
     usd |-> {" USD", "USD", " US$"},
     plain |-> {"", "\n", ""},
     other |-> {" each"}]

PriceTexts ==
    [pre : Before.gbp \cup Before.usd \cup Before.plain \cup Before.other,
     num : PriceNumbers,
     suf : After.gbp \cup After.usd \cup After.plain \cup After.other]

TextOf(c) == c.pre \o c.num.text \o c.suf

InitParse ==
    /\ NoScrape
    /\ NoRequests
    /\ call \in PriceTexts
    /\ ret = NoResult

ParsePrice ==
    /\ ret = NoResult
    /\ ret' = Returned(ParsePriceToGbp(TextOf(call)))
    /\ UNCHANGED <<params, rwrVars, runVars, call, envVars>>

SpecParse == InitParse /\ [][ParsePrice]_vars

(***************************************************************************)
(* _extract_item_price_debug applied to item pages. Each locator and the   *)
(* scan carry, next to what the page gives, the amount the code finds      *)
(* there (yields) and the first amount among all they hold (has).          *)
(***************************************************************************)
Sel(r, e, y, h) == [raises |-> r, elems |-> e, yields |-> y, has |-> h]

Scan(r, m, y) == [raises |-> r, matches |-> m, yields |-> y, has |-> y]

NoElems == Sel(FALSE, <<>>, NoPrice, NoPrice)

CountRaises == Sel(TRUE, <<>>, NoPrice, NoPrice)

ModernSelectors ==
    { NoElems, CountRaises,
      Sel(FALSE, <<"Buy it now", Pound \o "12.50">>, 1250, 1250),
      Sel(FALSE, <<Raises, "US $10.00">>, 780, 780),
      Sel(FALSE, <<Raises, None, "", "  ", "see details", Pound \o "99.00">>,
          NoPrice, 9900) }

LegacySelectors ==
    { NoElems, CountRaises,
      Sel(FALSE, <<Pound \o "20.00", Pound \o "21.00">>, 2000, 2000),
      Sel(FALSE, <<"Price:", Pound \o "30.00">>, NoPrice, 3000) }

Scans ==
    { Scan(TRUE, <<<<>>, <<>>, <<>>, <<>>>>, NoPrice),
      Scan(FALSE, <<<<>>, <<>>, <<>>, <<>>>>, NoPrice),
      Scan(FALSE, <<<<>>, <<"$5.00">>, <<"4.00">>, <<>>>>, 390),
      Scan(FALSE, <<<<>>, <<>>, <<"12.5", "6.00">>, <<"7.00">>>>, 600) }

\* six modern and nine legacy selectors, of which the first two match
ItemPages ==
    { [modern |-> <<a, b, NoElems, NoElems, NoElems, NoElems>>,
       legacy |-> <<c, d, NoElems, NoElems, NoElems, NoElems, NoElems, NoElems,
                    NoElems>>,
       html |-> h] :
        a \in ModernSelectors, b \in ModernSelectors \ {CountRaises},
        c \in LegacySelectors, d \in LegacySelectors \ {CountRaises},
        h \in Scans }

InitExtract ==
    /\ NoScrape
    /\ NoRequests
    /\ call \in ItemPages
    /\ ret = NoResult

ExtractPrice ==
    /\ ret = NoResult
    /\ ret' = Returned(ExtractItemPrice(call))
    /\ UNCHANGED <<params, rwrVars, runVars, call, envVars>>

SpecExtract == InitExtract /\ [][ExtractPrice]_vars


(***************************************************************************)
(* _extract_items_from_search_page applied to listing pages.               *)
(***************************************************************************)
Evaluated(r, o) == [raises |-> r, out |-> o]

SearchPages ==
    { [cards |-> c, a |-> a, b |-> b] :
        c \in { [raises |-> TRUE, n |-> 0], [raises |-> FALSE, n |-> 0],
                [raises |-> FALSE, n |-> 2] },
        a \in { Evaluated(TRUE, <<>>), Evaluated(FALSE, <<>>),
                Evaluated(FALSE, <<Card.c1>>),
                Evaluated(FALSE, <<Card.c1, Card.c2>>),
                Evaluated(FALSE, <<Card.c2, Card.c1>>) },
        b \in { Evaluated(TRUE, <<>>), Evaluated(FALSE, <<>>),
                Evaluated(FALSE, <<Card.c3>>),
                Evaluated(FALSE, <<Card.c1, Card.c3>>),
                Evaluated(FALSE, <<Card.c1, Card.c2>>) } }

InitSearchExtract ==
    /\ NoScrape
    /\ NoRequests
    /\ call \in SearchPages
    /\ ret = NoResult

ExtractCandidates ==
    /\ ret = NoResult
    /\ ret' = Returned(ExtractItemsFromSearchPage(call))
    /\ UNCHANGED <<params, rwrVars, runVars, call, envVars>>

SpecSearchExtract == InitSearchExtract /\ [][ExtractCandidates]_vars

(***************************************************************************)
(* The work of a scrape. Either run_with_retries runs on detail pages      *)
(* fixed by their url, with any browser call free to fail, or              *)
(* _safe_goto_page, the call behind each listing load (line 575) and each  *)
(* detail visit (line 626), is called on its own with the outcomes of its  *)
(* tries. Any print of run_with_retries can raise. Every browser operation *)
(* returns or fails, so a step that stays possible is taken: the           *)
(* specification is weakly fair.                                           *)
(***************************************************************************)
GotoCalls == [1..(GotoMaxRetries + 1) -> BOOLEAN]

InitGoto ==
    /\ NoScrape
    /\ NoRequests
    /\ call \in GotoCalls
    /\ ret = NoResult

InitScrape ==
    /\ pages \in 1..MaxPages
    /\ per_page \in 1..MaxPerPage
    /\ max_retries \in 1..DefaultMaxRetries
    /\ smoke = FALSE
    /\ usd_rate = DefaultUsdRate
    /\ InitLocals

InitWork == InitScrape \/ InitGoto

SafeGotoReturns ==
    /\ call # NoResult
    /\ ret = NoResult
    /\ ret' = Returned(SafeGotoPage(call))
    /\ UNCHANGED <<params, rwrVars, runVars, call, envVars>>

ScrapeStep ==
    /\ call = NoResult
    /\ \/ RwrAnnounceRaises
       \/ RwrTryReportRaises
       \/ RwrReportRaises
       \/ VisitItemCloseRaises
       \/ PlaywrightStartFails
       \/ LaunchFails
       \/ NewContextFails
       \/ OpenSearchPageFails
       \/ ListingAnnounceRaises
       \/ ListingWaitRaises
       \/ PageReportRaises
       \/ OpenItemPageFails
       \/ CloseAndPropagate
       \/ CloseRaises
       \/ FatalReturn
       \/ HandlerRaises
       \/ RwrException
       \/ NextKnownPages

NextWork == ScrapeStep \/ SafeGotoReturns

SpecWork == InitWork /\ [][NextWork]_vars /\ WF_vars(NextWork)

(***************************************************************************)
(* Properties.                                                             *)
(***************************************************************************)
RunEvent(i) == [op |-> "run", n |-> i]
SleepEvent(w) == [op |-> "sleep", n |-> w]

Last(seq) == seq[Len(seq)]

NonSmokeRunReturned == pc = "returned" /\ ~smoke
NonSmokeRwrReturned == rwr_pc = "returned" /\ ~smoke

\* the attempt that just ended is a clean run that collected nothing
ZeroItemAttemptEnded ==
    /\ rwr_pc = "running"
    /\ pc = "returned"
    /\ ~smoke
    /\ run_result.error = "No items collected"

\* the run ended in its outer handler
FatalRunResult(r) == ~r.success /\ StartsWith(r.error, "Fatal error: ")

Distinct(seq, F(_)) ==
    \A i, j \in 1..Len(seq) : i # j => F(seq[i]) # F(seq[j])

UrlOf(r) == r.url

\* C1: when attempts 1..k-1 failed and attempt k succeeded, run_with_retries
\* returns the result of attempt k, has called run exactly k times, and has
\* slept exactly k-1 times, the i-th sleep of 2^(i-1) lying between the
\* calls i and i+1.
C1_SuccessAfterRetries ==
    (rwr_pc = "returned" /\ outcomes # <<>> /\ Last(outcomes) = "success") =>
        LET k == Len(outcomes)
        IN /\ k <= max_retries
           /\ \A i \in 1..(k - 1) : outcomes[i] \in {"failed", "raised"}
           /\ rwr_result = run_result
           /\ Len(trace) = 2 * k - 1
           /\ \A i \in 1..k : trace[2 * i - 1] = RunEvent(i)
           /\ \A i \in 1..(k - 1) : trace[2 * i] = SleepEvent(2 ^ (i - 1))

C1_Witness ==
    /\ rwr_pc = "returned"
    /\ Len(outcomes) = 3
    /\ outcomes = <<"failed", "raised", "success">>
    /\ trace = <<RunEvent(1), SleepEvent(1), RunEvent(2), SleepEvent(2), RunEvent(3)>>

\* C2: after a clean attempt that collected zero items, run_with_retries
\* neither sleeps nor starts a further attempt. run_with_retries handles
\* that attempt as any failed one (lines 497-512): it is violated.
C2_ZeroItemsTerminal ==
    [][ZeroItemAttemptEnded =>
          /\ trace' = trace
          /\ ~(rwr_pc' = "loop" /\ attempt' <= max_retries)]_vars

\* C3 as stated: in every result of a non-smoke run and of
\* run_with_retries, success is true exactly when items is non-empty.
C3_SuccessIffItems ==
    /\ NonSmokeRunReturned => (run_result.success <=> Len(run_result.items) > 0)
    /\ NonSmokeRwrReturned => (rwr_result.success <=> Len(rwr_result.items) > 0)

\* C3 amended: in every result of run_with_retries success is true exactly
\* when items is non-empty; in every result of run success=true implies a
\* non-empty items list, and success=false comes with a non-empty items list
\* only in the fatal result ("Fatal error: ...") of a run that an exception
\* ended after items had been collected.
C3_SuccessImpliesItems ==
    /\ NonSmokeRwrReturned => (rwr_result.success <=> Len(rwr_result.items) > 0)
    /\ NonSmokeRunReturned =>
          /\ run_result.success => Len(run_result.items) > 0
          /\ ~FatalRunResult(run_result) =>
                (run_result.success <=> Len(run_result.items) > 0)
          /\ FatalRunResult(run_result) => run_result.items = all_items

C3_Witness ==
    /\ NonSmokeRunReturned
    /\ FatalRunResult(run_result)
    /\ Len(run_result.items) > 0

\* C4 as stated: whenever run has ended and the browser had been launched,
\* browser.close has been called.
C4_BrowserReleased ==
    (pc \in {"returned", "raised"} /\ browser # "none") => browser = "closed"

\* C5: at every point of a run and in the results, no two collected items
\* have the same canonical url.
C5_NoDuplicateUrls ==
    /\ Distinct(all_items, UrlOf)
    /\ NonSmokeRunReturned => Distinct(run_result.items, UrlOf)
    /\ NonSmokeRwrReturned => Distinct(rwr_result.items, UrlOf)

\* a listing page repeated a canonical url under two raw urls, the first was
\* collected and the loop has passed the second
C5_Witness ==
    /\ pc = "item_loop"
    /\ Len(all_items) >= 2
    /\ \E i, j \in 1..Len(items) :
          /\ i < j
          /\ j < idx
          /\ items[i].url # items[j].url
          /\ CleanUrl(items[i].url) = CleanUrl(items[j].url)
          /\ \E k \in 1..Len(all_items) : all_items[k].url = CleanUrl(items[i].url)

\* C6: within one run every url whose detail visit was started is in the
\* seen set, and no visit is started for a url that is in the seen set: no
\* canonical url is visited twice, whatever became of its first visit.
C6_NoRevisit ==
    /\ \A i \in 1..Len(visits) : visits[i].url \in seen_urls
    /\ Distinct(visits, UrlOf)

\* a url whose visit on an earlier page collected nothing comes up again on
\* a later page and has been passed over
C6_Witness ==
    /\ pc = "item_loop"
    /\ \E i \in 1..Len(items) :
          /\ i < idx
          /\ \E j \in 1..Len(visits) :
                /\ visits[j].url = CleanUrl(items[i].url)
                /\ visits[j].page < page_num
          /\ \A k \in 1..Len(all_items) : all_items[k].url # CleanUrl(items[i].url)

\* C7: the number of collected items never exceeds per_page, during the run
\* and in the results.
C7_AtMostPerPage ==
    /\ Len(all_items) <= per_page
    /\ NonSmokeRunReturned =>
          /\ run_result.count <= per_page
          /\ Len(run_result.items) <= per_page
    /\ NonSmokeRwrReturned => rwr_result.count <= per_page

\* per_page is 5, one listing page was loaded, its slice held 5 candidates
\* and the run returned 5 items
C7_Witness ==
    /\ NonSmokeRunReturned
    /\ per_page = 5
    /\ Len(loads) = 1
    /\ Len(items) = 5
    /\ run_result.count = 5

\* C8: at most 5 detail visits are started per listing page.
C8_AtMostFiveVisitsPerPage ==
    \A p \in 1..pages :
        Cardinality({ i \in 1..Len(visits) : visits[i].page = p }) <= 5

\* per_page leaves room for more than 5, and 5 visits were made on a page
\* that collected nothing
C8_Witness ==
    /\ per_page > 5
    /\ pc = "page_loop"
    /\ Len(all_items) = 0
    /\ \E p \in 1..pages :
          Cardinality({ i \in 1..Len(visits) : visits[i].page = p }) = 5

\* C9 as stated: when the last attempt of a scrape ended in the outer
\* handler after n >= 1 items had been collected, the result the scrape
\* returns holds those n items.
C9_PartialItemsReturned ==
    (NonSmokeRwrReturned /\ pc = "returned" /\ FatalRunResult(run_result)
        /\ Len(run_result.items) >= 1) =>
        /\ rwr_result.items = run_result.items
        /\ rwr_result.count = Len(run_result.items)

\* the error of the last attempt, as run returned or raised it
LastAttemptError ==
    IF Last(outcomes) = "raised" THEN run_raised ELSE run_result.error

\* C10: when all max_retries attempts failed, run was called exactly
\* max_retries times, no sleep follows the last call, and the result has
\* success=false, count=0, no items and an error that contains the error of
\* the last attempt.
C10_Exhausted ==
    (rwr_pc = "returned" /\ outcomes # <<>> /\ Last(outcomes) # "success") =>
        /\ Len(outcomes) = max_retries
        /\ \A i \in 1..Len(outcomes) : outcomes[i] \in {"failed", "raised"}
        /\ Cardinality({ i \in 1..Len(trace) : trace[i].op = "run" }) = max_retries
        /\ Last(trace) = RunEvent(max_retries)
        /\ rwr_result.success = FALSE
        /\ rwr_result.count = 0
        /\ rwr_result.items = <<>>
        /\ Contains(rwr_result.error, LastAttemptError)

C10_Witness ==
    /\ rwr_pc = "returned"
    /\ max_retries = 3
    /\ outcomes = <<"failed", "failed", "raised">>
    /\ rwr_result.success = FALSE

\* the result run returns when it ends cleanly with nothing collected
\* C11: when the listing pages of a scrape yield zero candidates, the result
\* of the scrape (of run_with_retries) has success=false, count=0 and error
\* exactly "No items collected", and nothing is raised. run returns that
\* error (line 706); run_with_retries retries and wraps it (line 516): it is
\* violated.
C11_NoItemsErrorExact ==
    /\ pc # "raised"
    /\ rwr_pc = "returned" =>
          /\ rwr_result.success = FALSE
          /\ rwr_result.count = 0
          /\ rwr_result.error = "No items collected"

\* the items collected from urls whose detail visit was started on page p
ItemsOfPage(p) ==
    { i \in 1..Len(all_items) :
        \E j \in 1..Len(visits) :
            visits[j].page = p /\ visits[j].url = all_items[i].url }

VisitsOfPage(p) == { j \in 1..Len(visits) : visits[j].page = p }

Range(seq) == { seq[i] : i \in 1..Len(seq) }

\* C12: when every detail-page navigation of a listing page fails, that
\* page contributes no item, the run does not abort (no exception reaches
\* the outer handler, the run returns its normal result), and the next
\* listing page is loaded when one remains.
C12_NavDownPageSkipped ==
    /\ \A p \in DownPages : ItemsOfPage(p) = {}
    /\ pc \notin {"handler", "raised"} /\ exc = None
    /\ pc = "returned" =>
          /\ run_result = RunResultOk(all_items, pages, per_page)
          /\ \A p \in DownPages :
                (p \in Range(loads) /\ p < pages) => (p + 1) \in Range(loads)

\* five detail navigations failed on page 1, page 2 was loaded and items
\* were collected from it
C12_Witness ==
    /\ pc = "returned"
    /\ Cardinality(VisitsOfPage(1)) = 5
    /\ ItemsOfPage(1) = {}
    /\ 2 \in Range(loads)
    /\ Len(all_items) >= 1

\* a result dictionary with its fields
Structured(r, nonSmoke) ==
    /\ r # NoResult
    /\ "success" \in DOMAIN r
    /\ r.success \in BOOLEAN
    /\ nonSmoke => ("count" \in DOMAIN r /\ r.count \in Nat)

\* C13: whichever browser call fails (start, launch, context or page
\* creation, navigation, extraction, close), run never raises: the exception
\* is on its way to the outer handler or handled, run returns a result
\* dictionary, and so does run_with_retries; the scrape never stops before
\* run_with_retries has returned.
C13_NoExceptionPropagates ==
    /\ pc # "raised" /\ run_raised = None
    /\ exc # None => pc \in {"finally", "handler", "returned"}
    /\ pc = "returned" => Structured(run_result, ~smoke)
    /\ (pc = "returned" /\ exc # None) =>
          /\ run_result.success = FALSE
          /\ run_result.error = "Fatal error: " \o exc
    /\ rwr_pc = "returned" => Structured(rwr_result, ~smoke)
    /\ rwr_pc # "returned" => ENABLED NextFaults

\* the browser could not be launched in any attempt and the scrape returned
\* a result
C13_Witness ==
    /\ rwr_pc = "returned"
    /\ ~smoke
    /\ pc = "returned"
    /\ browser = "none"
    /\ exc # None
    /\ FatalRunResult(run_result)
    /\ rwr_result.success = FALSE

\* error is populated
HasError(r) == Truthy(Get(r, "error", None))

\* C14: in every result of a non-smoke run and of run_with_retries, error
\* is populated exactly when success is false.
C14_ErrorIffFailure ==
    /\ NonSmokeRunReturned => (HasError(run_result) <=> ~run_result.success)
    /\ NonSmokeRwrReturned => (HasError(rwr_result) <=> ~rwr_result.success)

\* the scrape returned the successful result of its second attempt, whose
\* error is None, after a first attempt that failed with an error
C14_Witness ==
    /\ NonSmokeRwrReturned
    /\ rwr_result.success
    /\ rwr_result.error = None
    /\ Truthy(last_error)

\* C15: every collected item has price_usd absent exactly when price_gbp is
\* absent, and otherwise price_usd = price_gbp * usd_rate rounded to 2
\* decimals, in all_items and in the results; and the price_gbp of an item
\* being collected is the detail-page price when there is one, else the
\* price parsed from the search card, else absent.
C15_PriceUsdFromFinalGbp ==
    /\ [](\A its \in {all_items, Get(run_result, "items", <<>>),
                       Get(rwr_result, "items", <<>>)} :
            \A i \in 1..Len(its) :
                /\ its[i].price_usd = NoPrice <=> its[i].price_gbp = NoPrice
                /\ its[i].price_gbp # NoPrice =>
                      /\ its[i].price_usd \in Nat
                      /\ (100 * its[i].price_usd - its[i].price_gbp * usd_rate)
                             \in -50..50)
    /\ [][(pc = "item_visit" /\ Len(all_items') = Len(all_items) + 1) =>
            Last(all_items').price_gbp =
                IF DetailPrice(clean_url) # NoPrice THEN DetailPrice(clean_url)
                ELSE ParsePriceToGbp(item.price_text)]_vars

\* under a rate other than the default, a run has collected an item priced
\* from its search card in USD, an item priced by its detail page and an
\* item without any price
C15_Witness ==
    /\ usd_rate = 130
    /\ \E i \in 1..Len(all_items) :
          all_items[i].price_gbp = 780 /\ all_items[i].price_usd = 1014
    /\ \E i \in 1..Len(all_items) :
          all_items[i].price_gbp = 995 /\ all_items[i].price_usd = 1293
    /\ \E i \in 1..Len(all_items) :
          all_items[i].price_gbp = NoPrice /\ all_items[i].price_usd = NoPrice

\* the request lies outside the range of pages or of per_page
OutOfRange(req) ==
    req.pages < 1 \/ req.pages > 50 \/ req.per_page < 1 \/ req.per_page > 200

\* C16 as stated: a request whose pages or per_page is out of range is not
\* rejected: it is answered with status 200 and, unless it is a dummy
\* request, the scrape is run with pages clamped into [1,50] and per_page
\* clamped into [1,200].
C16_ClampedNotRejected ==
    (ret # NoResult /\ OutOfRange(call)) =>
        /\ ret.value.status = 200
        /\ ~call.dummy =>
              /\ ret.value.scraped
              /\ ret.value.pages = Max(1, Min(call.pages, 50))
              /\ ret.value.per_page \in 1..200

\* C17 as stated: canonicalizing a canonical url returns it unchanged, and
\* a canonical url has no query string and starts with an absolute scheme.
C17_CanonicalIdempotent ==
    ret # NoResult =>
        /\ CleanUrl(ret.value) = ret.value
        /\ ~Contains(ret.value, "?")
        /\ StartsWith(ret.value, "http://") \/ StartsWith(ret.value, "https://")

\* the amount the claim gives a price text: a number with a GBP marker
\* before or after it is that number, whatever USD marker the text also
\* holds; else a number with a USD marker is the number times 0.78, rounded;
\* else a number that is the whole text is that number; else nothing
\* the currency a text is read in and its amount, by the markers it was
\* built from
Classified(c) ==
    IF c.num.text = "" THEN [cur |-> "none", amount |-> NoPrice]
    ELSE IF c.pre \in Before.gbp THEN [cur |-> "gbp", amount |-> c.num.head]
    ELSE IF c.suf \in After.gbp THEN [cur |-> "gbp", amount |-> c.num.tail]
    ELSE IF c.pre \in Before.usd THEN [cur |-> "usd", amount |-> c.num.head]
    ELSE IF c.suf \in After.usd THEN [cur |-> "usd", amount |-> c.num.tail]
    ELSE IF c.pre \in Before.plain /\ c.suf \in After.plain
    THEN [cur |-> "plain", amount |-> c.num.whole]
    ELSE [cur |-> "none", amount |-> NoPrice]

\* C18: _parse_price_to_gbp returns the amount of the first GBP pattern that
\* matches, thousands separators removed, also when the text holds a USD
\* marker; else the amount of the first USD pattern that matches times 0.78
\* rounded to 2 decimals (a hundredth nearest to the product); else the
\* number the whole text is; else None. A number is digits and commas with
\* an optional two-digit fraction.
\* a pound amount of 12.50 gives 12.50 and "$10.00" gives 7.80.
C18_ParsePrecedence ==
    ret # NoResult =>
        /\ Classified(call).cur # "usd" => ret.value = Classified(call).amount
        /\ Classified(call).cur = "usd" =>
              /\ ret.value \in Nat
              /\ (100 * ret.value - Classified(call).amount * 78) \in -50..50
        /\ TextOf(call) = Pound \o "12.50" => ret.value = 1250
        /\ TextOf(call) = "$10.00" => ret.value = 780

\* a text with a USD marker before the number and a GBP marker after it
\* was parsed as GBP
C18_Witness ==
    /\ ret # NoResult
    /\ TextOf(call) = "$1,234.56 GBP"
    /\ ret.value = 123456

\* C19: the listing pages loaded in a run are 1, 2, ... in this order, each
\* once and none beyond pages; and once the run has collected per_page
\* items, no step of that run loads a listing page or opens a detail page.
C19_AscendingUntilCap ==
    /\ [](/\ Len(loads) <= pages
          /\ \A i \in 1..Len(loads) : loads[i] = i
          /\ \A i, j \in 1..Len(loads) : i < j => loads[i] < loads[j])
    /\ [][(rwr_pc = "running" /\ pc \notin {"returned", "raised"}
              /\ Len(all_items) >= per_page) =>
            (loads' = loads /\ visits' = visits)]_vars

\* the run stopped at the cap after the first of two listing pages
C19_Witness ==
    /\ pc = "returned"
    /\ pages = 2
    /\ per_page >= 2
    /\ loads = <<1>>
    /\ Len(all_items) = per_page

\* the first amount the locators of a tier give, by the field f
TierAmount(sels, f) ==
    FirstPrice([i \in 1..Len(sels) |-> sels[i][f]])

\* the price of a page whose tiers give the amounts m, l and h
TieredPrice(m, l, h) ==
    IF m # NoPrice THEN m ELSE IF l # NoPrice THEN l ELSE h

\* the tiers consulted: a later tier only when the earlier ones gave nothing
TiersInOrder(r, m, l) ==
    /\ r.tiers \in {<<"modern">>, <<"modern", "legacy">>,
                     <<"modern", "legacy", "html">>}
    /\ Len(r.tiers) >= 2 <=> m = NoPrice
    /\ Len(r.tiers) = 3 <=> (m = NoPrice /\ l = NoPrice)

\* C20 as stated: the tiers are consulted in order, a later tier only when
\* every earlier tier produced no price, and the returned price is the
\* first value that parses in the earliest tier that has one, among all the
\* texts the tier's locators match; null when no tier has one.
C20_FirstParsingValue ==
    ret # NoResult =>
        ret.value.price = TieredPrice(TierAmount(call.modern, "has"),
                                      TierAmount(call.legacy, "has"),
                                      call.html.has)

\* C20 amended: the tiers are consulted in order (modern locators, legacy
\* locators, scan), a later tier only when every earlier tier produced no
\* price; the returned price is the first value that parses among the texts
\* the earliest such tier reads, which are the first five elements of each
\* modern locator, the first element of each legacy locator and every token
\* of the scan; a locator or element whose call raises is passed over, and
\* when no tier reads a parseable value the price is null.
C20_FirstParsingValueRead ==
    ret # NoResult =>
        LET m == TierAmount(call.modern, "yields")
            l == TierAmount(call.legacy, "yields")
        IN /\ ret.value.price = TieredPrice(m, l, call.html.yields)
           /\ TiersInOrder(ret.value, m, l)

\* the sixth element of a modern locator and the second element of a
\* legacy locator held prices, calls raised, and the price came from the
\* scan
C20_Witness ==
    /\ ret # NoResult
    /\ TierAmount(call.modern, "has") = 9900
    /\ TierAmount(call.legacy, "has") = 3000
    /\ call.modern[1] = CountRaises
    /\ call.html.yields = 390
    /\ ret.value = [price |-> 390, tiers |-> <<"modern", "legacy", "html">>]

\* the urls of the collected items
CollectedUrls == { all_items[i].url : i \in 1..Len(all_items) }

\* the detail visit of url u has ended
VisitEnded(u) == ~(pc = "item_visit" /\ clean_url = u)

\* C21: a candidate whose detail page showed a condition text without "new"
\* (in any case) is never among the items; a candidate whose detail page
\* loaded, whose extraction did not raise and whose condition could not be
\* read is among the items once its visit has ended.
C21_SoftNewCheck ==
    \A j \in 1..Len(visits) :
        LET u == visits[j].url
            d == DetailOf(u)
        IN /\ (d.nav /\ ~d.raises /\ d.read = "other") => u \notin CollectedUrls
           /\ (VisitEnded(u) /\ d.nav /\ ~d.raises /\ d.read = "unread") =>
                 u \in CollectedUrls

\* the run visited a page with no condition text, a page that reads "Used",
\* a page with an empty condition text and one that did not load, and
\* returned the first and the third
C21_Witness ==
    /\ pc = "returned"
    /\ Len(visits) = 5
    /\ CollectedUrls = {BaseHost \o "/itm/1", BaseHost \o "/itm/3",
                        BaseHost \o "/itm/4"}
    /\ all_items[1].condition = "Brand New"
    /\ all_items[2].condition = ""

\* a condition field that is empty or names a new item
NewOrEmpty(c) == Truthy(c) => Contains(Lower(c), "new")

\* C22: every item of a returned result has a condition field that is empty
\* or contains "new" (in any case), whether it came from the detail page or
\* from the search card.
C22_OnlyNewItems ==
    /\ NonSmokeRunReturned =>
          \A i \in 1..Len(run_result.items) : NewOrEmpty(run_result.items[i].condition)
    /\ NonSmokeRwrReturned =>
          \A i \in 1..Len(rwr_result.items) : NewOrEmpty(rwr_result.items[i].condition)

\* the list the card strategy gives: empty when it fails or matches no card
CardList(page) ==
    IF ~page.cards.raises /\ page.cards.n > 0 /\ ~page.a.raises
    THEN page.a.out ELSE <<>>

\* the list the anchor scan gives: empty when it fails
AnchorList(page) == IF page.b.raises THEN <<>> ELSE page.b.out

\* C23: the anchor scan (Path B) runs exactly when the card strategy (Path
\* A) yielded an empty list or failed; the returned candidates are the list
\* of the card strategy when it is non-empty and else the list of the anchor
\* scan, never both; when both are empty or fail, the empty list is returned
\* and nothing is raised.
C23_StrategiesNotUnioned ==
    ret # NoResult =>
        /\ ret.value.paths \in {<<"A">>, <<"A", "B">>}
        /\ ret.value.paths = <<"A", "B">> <=> CardList(call) = <<>>
        /\ ret.value.items \in {CardList(call), AnchorList(call)}
        /\ CardList(call) # <<>> => ret.value.items = CardList(call)
        /\ (CardList(call) = <<>> /\ AnchorList(call) = <<>>) =>
              ret.value.items = <<>>

\* both strategies would give candidates and only those of Path A came back
C23_Witness ==
    /\ ret # NoResult
    /\ call.a.out = <<Card.c1, Card.c2>>
    /\ call.b.out = <<Card.c1, Card.c3>>
    /\ ret.value = [items |-> <<Card.c1, Card.c2>>, paths |-> <<"A">>]

\* this step navigates to a listing page and does not enter the candidate
\* loop: the navigation failed or the page yielded no candidate
ListingSkipped ==
    /\ pc = "page_loop"
    /\ Len(loads') = Len(loads) + 1
    /\ pc' # "item_loop"

\* C24: when no browser call raises, a listing page whose navigation fails
\* or that yields no candidate is skipped without aborting the run: no
\* exception arises, the items collected so far stay as they are, and the
\* page loop goes on with the next page index; every page index up to the
\* current one has been navigated to, in order, and a run that returns with
\* fewer than per_page items has navigated to all its pages.
C24_ListingSkipContinues ==
    /\ [](exc = None /\ pc \notin {"handler", "raised"})
    /\ [][ListingSkipped =>
            /\ Last(loads') = page_num
            /\ all_items' = all_items
            /\ seen_urls' = seen_urls
            /\ pc' = "page_loop"
            /\ page_num' = page_num + 1]_vars
    /\ [](pc = "page_loop" => loads = [i \in 1..(page_num - 1) |-> i])
    /\ []((pc = "returned" /\ Len(all_items) < per_page) =>
              /\ loads = [i \in 1..pages |-> i]
              /\ run_result = RunResultOk(all_items, pages, per_page))

\* page 1 gave five candidates of which several were collected, page 2 was
\* navigated to and skipped, and the items of page 1 are still there
C24_Witness ==
    /\ pc = "page_loop"
    /\ page_num = 3
    /\ loads = <<1, 2>>
    /\ Len(items) = 5
    /\ Len(all_items) >= 2
    /\ VisitsOfPage(2) = {}

\* no request is between its start and its response
NoneInFlight == \A i \in DOMAIN reqs : reqs[i].at # "scraping"

\* C25: whenever no /scrape request is in flight, both proxy variables hold
\* (or lack) the values they had before the first request, also after
\* requests that overlapped; and while a request without a proxy runs its
\* scrape, neither variable holds the proxy of another request.
C25_ProxyEnvRestored ==
    /\ NoneInFlight => environ = found
    /\ \A i, j \in DOMAIN reqs :
          (reqs[i].at = "scraping" /\ ~Truthy(reqs[i].proxy) /\ i # j
              /\ Truthy(reqs[j].proxy)) =>
              (environ.http # reqs[j].proxy /\ environ.https # reqs[j].proxy)

\* C26: every attempt of run starts with an empty accumulator and an empty
\* seen set, every item of the accumulator was visited in the current
\* attempt, and a successful result of run_with_retries holds exactly the
\* accumulator of the attempt that succeeded.
AttemptStarts == rwr_pc = "loop" /\ rwr_pc' = "running"

VisitedUrls == { visits[j].url : j \in 1..Len(visits) }

C26_AttemptsShareNoState ==
    /\ [][AttemptStarts => all_items' = <<>> /\ seen_urls' = {}]_vars
    /\ [](rwr_pc = "running" =>
            /\ \A k \in 1..Len(all_items) : all_items[k].url \in VisitedUrls
            /\ seen_urls = VisitedUrls)
    /\ []((rwr_pc = "returned" /\ Get(rwr_result, "success", FALSE)) =>
            /\ rwr_result.items = all_items
            /\ \A k \in 1..Len(rwr_result.items) :
                   rwr_result.items[k].url \in VisitedUrls)

C26_Witness ==
    /\ call = NoResult
    /\ rwr_pc = "loop"
    /\ outcomes = <<"failed">>
    /\ attempt = 2
    /\ max_retries = 2
    /\ Len(all_items) >= 1
    /\ seen_urls # {}

\* C27: a detail page is open only while its candidate is being visited;
\* every step that ends a visit (failed navigation, non-new skip, collected
\* item, exception during extraction) has called close on the page, so that
\* no page is open when the next candidate is taken up, when a further page
\* is opened, or when run has returned.
C27_DetailPageClosed ==
    /\ [](item_page = "open" => (pc = "item_visit" /\ clean_url = Last(visits).url))
    /\ [](pc \in {"returned", "raised"} => item_page # "open")
    /\ [][pc = "item_visit" => item_page' = "closed"]_vars
    /\ [][(pc = "item_loop" /\ pc' = "item_visit") =>
            (item_page # "open" /\ item_page' = "open")]_vars

\* two detail visits have ended without an item, the page of the second
\* is closed and the candidate loop is at the third candidate
C27_Witness ==
    /\ pc = "item_loop"
    /\ Len(visits) = 2
    /\ idx = 3
    /\ all_items = <<>>
    /\ item_page = "closed"

\* C28: the response of a smoke endpoint has ok=true only when the
\* navigation to the fixed page succeeded, that is when the scrape it
\* called (run_with_retries in main.py, run in api_server.py) returned
\* success=true; when the navigation failed on every try, ok is not true.
SmokeData == IF rwr_pc = "direct" THEN run_result ELSE rwr_result

C28_SmokeOkOnlyOnSuccess ==
    ret # NoResult =>
        (Get(ret.value, "ok", FALSE) = TRUE => Get(SmokeData, "success", FALSE) = TRUE)

\* C29: when every browser operation returns or fails, run_with_retries
\* ends (it returns, or raises when a report cannot be printed); it calls
\* run at most max_retries times, a run loads at most
\* pages listing pages and visits at most 5 detail pages per listing page,
\* and _safe_goto_page makes at most 2 tries, returns True at the first try
\* that succeeds and False after the last one has failed.
RunCalls == { k \in 1..Len(trace) : trace[k].op = "run" }

GotoBounded ==
    ret # NoResult =>
        LET r == ret.value
        IN  /\ r.tries \in 1..GotoMaxRetries
            /\ r.ok <=> \E a \in 1..GotoMaxRetries : call[a]
            /\ r.ok => call[r.tries] /\ \A b \in 1..(r.tries - 1) : ~call[b]
            /\ ~r.ok => r.tries = GotoMaxRetries

C29_TerminatesWithBoundedWork ==
    /\ (call = NoResult) ~> (rwr_pc \in {"returned", "raised"})
    /\ [](Cardinality(RunCalls) <= max_retries)
    /\ [](Len(loads) <= pages)
    /\ [](\A p \in 1..MaxPages : Cardinality(VisitsOfPage(p)) <= 5)
    /\ []GotoBounded

C29_Witness ==
    /\ rwr_pc = "returned"
    /\ max_retries = 2
    /\ Cardinality(RunCalls) = 2
    /\ pages = 2
    /\ Len(loads) = 2
    /\ Cardinality(VisitsOfPage(1)) = 5

====
